---- MODULE Spec2Model ----
(***************************************************************************)
(* Model of the OML measurement server's PostgreSQL adapter                *)
(* (src/server/psql_adapter.c): the row insert with its per-type binary    *)
(* encoders and its transaction heartbeat, and the sender-id allocation.   *)
(*                                                                         *)
(* Machine integers are kept as little-endian byte sequences (the host     *)
(* memory of an LP64 little-endian build), so that 64-bit values, byte     *)
(* swaps and reads of a union through another member are exact.            *)
(***************************************************************************)
EXTENDS Integers, Sequences, FiniteSets, TLC

VARIABLES
    now,          \* the wall clock, in seconds (gettimeofday / time)
    clockBelow,   \* the wall clock has read less than last_commit
    start_time,   \* Database.start_time
    last_commit,  \* PsqlDB.last_commit
    txn,          \* state of the connection's transaction block
    txnOpenedAt,  \* clock second at which the current transaction was begun
    schema,       \* table->schema->fields[].type
    values,       \* PsqlTable.values: the per-parameter scratch buffers
    ins,          \* what the last psql_insert call did
    reopens,      \* second |-> number of successful reopens by psql_insert
    stm,          \* what the last psql_stmt call did
    dbHandle,     \* db->handle: "open", or "null" once psql_release has run
    senders,      \* the _senders table: name |-> id
    firstId,      \* name |-> id returned by the first psql_add_sender_id call
    snd,          \* what the last psql_add_sender_id call did
    prepared,     \* names of the statements prepared in the connection session
    tables,       \* table name |-> state of table->handle
    tc,           \* what the last psql_table_create call did
    tf,           \* what the last psql_table_free call did
    catalog,      \* pg_tables: the user tables, in the order they are listed
    metaRows,     \* _experiment_metadata: table name |-> value of table_<name>
    gl,           \* what the last psql_get_table_list call did
    bwChain,      \* BufferedWriter: the chunks of the chain, oldest first
    bwPrologue,   \* BufferedWriter: the metadata prologue
    bwDropped,    \* the chunks that back-pressure has discarded, in order
    bwPushes,     \* number of bw_push / bw_push_meta calls made
    bwLast,       \* what the last bw_push / bw_push_meta call did
    uri,          \* the argument of parse_uri
    parsed,       \* what parse_uri returned and stored for it
    sync_buf,     \* the bytes at the buf argument of oml_zlib_find_sync
    sync_len,     \* the len argument of oml_zlib_find_sync
    sync,         \* what oml_zlib_find_sync returned for them
    zi,           \* oml_zlib_inf: its locals, its position and its result
    zd,           \* oml_zlib_def: its locals, its position and its result
    kvRows,       \* _experiment_metadata: its rows, in the order of insertion
    kvLast,       \* key |-> value of the last psql_set_metadata that returned 0
    kv            \* what the last psql_set_metadata / psql_get_metadata did

vars == << now, clockBelow, start_time, last_commit, txn, txnOpenedAt, schema, values,
           ins, reopens, stm, dbHandle, senders, firstId, snd, prepared,
           tables, tc, tf, catalog, metaRows, gl, bwChain, bwPrologue, bwDropped, bwPushes,
           bwLast, uri, parsed, sync_buf, sync_len, sync, zi, zd, kvRows, kvLast,
           kv >>

dbVars == << now, clockBelow, start_time, last_commit, txn, txnOpenedAt, schema, values,
             ins, reopens, stm, dbHandle >>

kvVars == << kvRows, kvLast, kv >>

senderVars == << senders, firstId, snd, kvVars >>

tableVars == << prepared, tables, tc, tf >>

\* the process runs and the database is open: no call has died and
\* psql_release has not been called
Alive ==
    /\ ~ins.crashed
    /\ ~tc.crashed
    /\ ~tf.crashed
    /\ dbHandle = "open"

listVars == << catalog, metaRows, gl >>

bwVars == << bwChain, bwPrologue, bwDropped, bwPushes, bwLast >>

\* the state of the library code, which the database adapter does not touch
uriVars == << uri, parsed >>

syncVars == << sync_buf, sync_len, sync >>

zlibVars == << syncVars, zi, zd >>

libVars == << bwVars, uriVars, zlibVars >>

-----------------------------------------------------------------------------
(* Bounds of the model *)

MaxTime == 2

MaxEncCols == 1

MaxId == 3

-----------------------------------------------------------------------------
(* Program constants *)

MAX_DIGITS == 32

NMETA == 4

SizeofPtr == 8

-----------------------------------------------------------------------------
(* Bytes and words *)

RECURSIVE Reverse(_)
Reverse(s) ==
    IF s = << >> THEN << >> ELSE Reverse(Tail(s)) \o << Head(s) >>

RECURSIVE Zeros(_)
Zeros(n) ==
    IF n <= 0 THEN << >> ELSE << 0 >> \o Zeros(n - 1)

\* htonl / htonll on a little-endian host: the bytes in reverse order
htonl(w) ==
    Reverse(SubSeq(w, 1, 4))

htonll(m) ==
    Reverse(SubSeq(m, 1, 8))

\* a write through a pointer at the start of a scratch buffer; a buffer
\* keeps its allocated size, the bytes written past its end are not part
\* of it
Store(buf, bytes) ==
    IF Len(bytes) <= Len(buf)
    THEN bytes \o SubSeq(buf, Len(bytes) + 1, Len(buf))
    ELSE SubSeq(bytes, 1, Len(buf))

\* values[i] after a failed oml_realloc: the null pointer, no buffer at all
NullBuf ==
    << -1 >>

\* the C string held in a buffer: the bytes before the first NUL
RECURSIVE CStr(_)
CStr(buf) ==
    IF buf = << >> \/ Head(buf) = 0 THEN << >>
    ELSE << Head(buf) >> \o CStr(Tail(buf))

RECURSIVE Digits(_)
Digits(n) ==
    IF n < 10 THEN << 48 + n >> ELSE Digits(n \div 10) \o << 48 + (n % 10) >>

\* "%d"
sprintf_d(n) ==
    IF n < 0 THEN << 45 >> \o Digits(-n) ELSE Digits(n)

RECURSIVE Log2(_)
Log2(a) ==
    IF a <= 1 THEN 0 ELSE 1 + Log2(a \div 2)

RECURSIVE Pow2(_)
Pow2(e) ==
    IF e <= 0 THEN 1 ELSE 2 * Pow2(e - 1)

\* the memory of a double holding the integer n, |n| < 2^20
DoubleMem(n) ==
    IF n = 0 THEN Zeros(8)
    ELSE LET a      == IF n < 0 THEN -n ELSE n
             sign   == IF n < 0 THEN 1 ELSE 0
             e      == Log2(a)
             biased == 1023 + e
             frac   == (a - Pow2(e)) * Pow2(20 - e)
         IN  << 0, 0, 0, 0,
                frac % 256,
                (frac \div 256) % 256,
                (biased % 16) * 16 + frac \div 65536,
                sign * 128 + biased \div 16 >>

-----------------------------------------------------------------------------
(* psql_type_map and the scalar encoders *)

ScalarTypes ==
    { "OML_LONG_VALUE", "OML_DOUBLE_VALUE", "OML_STRING_VALUE",
      "OML_INT32_VALUE", "OML_UINT32_VALUE", "OML_INT64_VALUE",
      "OML_UINT64_VALUE", "OML_GUID_VALUE", "OML_BOOL_VALUE",
      "OML_BLOB_VALUE" }

VectorTypes ==
    { "OML_VECTOR_DOUBLE_VALUE", "OML_VECTOR_INT32_VALUE",
      "OML_VECTOR_UINT32_VALUE", "OML_VECTOR_INT64_VALUE",
      "OML_VECTOR_UINT64_VALUE", "OML_VECTOR_BOOL_VALUE" }

Types ==
    ScalarTypes \cup VectorTypes \cup { "OML_DB_PRIMARY_KEY" }

psql_oml_to_size(type) ==
    CASE type = "OML_DB_PRIMARY_KEY" -> 4
      [] type = "OML_LONG_VALUE"     -> 4
      [] type = "OML_DOUBLE_VALUE"   -> 8
      [] type = "OML_STRING_VALUE"   -> 0
      [] type = "OML_BLOB_VALUE"     -> 0
      [] type = "OML_INT32_VALUE"    -> 4
      [] type = "OML_UINT32_VALUE"   -> 8
      [] type = "OML_INT64_VALUE"    -> 8
      [] type = "OML_UINT64_VALUE"   -> 8
      [] type = "OML_GUID_VALUE"     -> 8
      [] type = "OML_BOOL_VALUE"     -> 1
      [] type \in VectorTypes        -> 0

\* each encoder: the buffer after the write, the returned size, and the
\* number of bytes the memcpy wrote
psql_set_int8_value(val, buf) ==
    [ buf |-> Store(buf, << val >>), len |-> 1, wrote |-> 1 ]

psql_set_int32_value(val, buf) ==
    [ buf |-> Store(buf, htonl(val)), len |-> 4, wrote |-> 4 ]

psql_set_int64_value(val, buf) ==
    [ buf |-> Store(buf, htonll(val)), len |-> 8, wrote |-> 8 ]

\* (int32_t)val of a long: its low four bytes
psql_set_long_value(val, buf) ==
    psql_set_int32_value(SubSeq(val, 1, 4), buf)

\* (int64_t)val of a uint32_t: zero-extended
psql_set_uint32_value(val, buf) ==
    psql_set_int64_value(SubSeq(val, 1, 4) \o Zeros(4), buf)

psql_set_uint64_value(val, buf) ==
    psql_set_int64_value(val, buf)

\* returns sizeof(binval), the size of a pointer
psql_set_double_value(val, buf) ==
    [ buf |-> Store(buf, htonll(val)), len |-> SizeofPtr, wrote |-> 8 ]

\* the int8_t parameter keeps the low byte of the argument
psql_set_bool_value(val, buf) ==
    psql_set_int8_value(val[1], buf)

-----------------------------------------------------------------------------
(* OmlValue: a type tag and the memory of the value union; a string value  *)
(* carries its characters instead                                          *)

oml_value_get_type(v) ==
    v.type

omlc_get_long(v) ==
    v.mem

omlc_get_int32(v) ==
    SubSeq(v.mem, 1, 4)

omlc_get_uint32(v) ==
    SubSeq(v.mem, 1, 4)

\* the eight bytes of the union, whichever member was stored last
omlc_get_int64(v) ==
    v.mem

omlc_get_uint64(v) ==
    v.mem

omlc_get_double(v) ==
    v.mem

omlc_get_guid(v) ==
    v.mem

omlc_get_bool(v) ==
    SubSeq(v.mem, 1, 4)

omlc_get_string_length(v) ==
    Len(v.str)

-----------------------------------------------------------------------------
(* The per-type dispatcher of psql_insert.  A column's encoding state is   *)
(* [buf, len, fmt, strlen, ran, fail]: the scratch buffer, paramLength[i], *)
(* paramFormat[i], the local len, the case bodies run so far, and whether  *)
(* the body returned -1.                                                   *)

\* the case labels of the switch, in source order; the first block of the
\* switch body carries no label
SwitchCases ==
    << "(no label)", "OML_INT32_VALUE", "OML_UINT32_VALUE", "OML_INT64_VALUE",
       "OML_UINT64_VALUE", "OML_DOUBLE_VALUE", "OML_GUID_VALUE",
       "OML_BOOL_VALUE", "OML_STRING_VALUE", "OML_BLOB_VALUE",
       "OML_VECTOR_DOUBLE_VALUE", "OML_VECTOR_INT32_VALUE",
       "OML_VECTOR_UINT32_VALUE", "OML_VECTOR_INT64_VALUE",
       "OML_VECTOR_UINT64_VALUE", "OML_VECTOR_BOOL_VALUE" >>

\* the case bodies that end in break
CaseBreaks(label) ==
    label \notin { "OML_UINT32_VALUE", "OML_UINT64_VALUE" }

\* a write of n bytes at the start of a buffer goes past its end
Overflows(buf, n) ==
    n > Len(buf)

Encoded(st, e, label) ==
    [ st EXCEPT !.buf = e.buf, !.len = e.len, !.fmt = 1,
                !.over = @ \/ Overflows(st.buf, e.wrote),
                !.ran = st.ran \o << label >> ]

\* what oml_realloc may do: fail, or succeed; fill is what a byte of the
\* new memory that was never written reads as, 0 or 165 here
AllocOutcomes ==
    { [ ok |-> FALSE, fill |-> 0 ] } \cup
    { [ ok |-> TRUE, fill |-> f ] : f \in { 0, 165 } }

RECURSIVE Fill(_, _)
Fill(n, byte) ==
    IF n <= 0 THEN << >> ELSE << byte >> \o Fill(n - 1, byte)

\* oml_realloc(values[i], len) that succeeds: a buffer of len bytes that
\* keeps what fits of the old one, the bytes after it being indeterminate;
\* a null pointer is allocated afresh
oml_realloc(buf, len, fill) ==
    IF buf = NullBuf THEN Fill(len, fill)
    ELSE LET keep == IF len < Len(buf) THEN len ELSE Len(buf)
         IN  SubSeq(buf, 1, keep) \o Fill(len - keep, fill)

StringBody(v, st, alloc) ==
    LET len  == omlc_get_string_length(v) + 1
        grow == len > MAX_DIGITS
        buf  == IF grow THEN oml_realloc(st.buf, len, alloc.fill) ELSE st.buf
        st1  == [ st EXCEPT !.strlen = len,
                            !.ran = st.ran \o << "OML_STRING_VALUE" >> ]
    IN  IF grow /\ ~alloc.ok
        THEN [ st1 EXCEPT !.fail = TRUE, !.buf = NullBuf ]
        ELSE IF buf = NullBuf
        THEN [ st1 EXCEPT !.fail = TRUE, !.crashed = TRUE ]
        ELSE [ st1 EXCEPT !.buf = Store(buf, v.str \o << 0 >>),
                          !.over = @ \/ Overflows(buf, len) ]

\* "0123456789abcdef"[n]
HexDigit(n) ==
    IF n < 10 THEN 48 + n ELSE 87 + n

RECURSIVE HexOf(_)
HexOf(bytes) ==
    IF bytes = << >> THEN << >>
    ELSE << HexDigit(Head(bytes) \div 16), HexDigit(Head(bytes) % 16) >>
         \o HexOf(Tail(bytes))

\* PQescapeByteaConn when it succeeds: the hex form, \x and two digits per
\* byte; the length it stores counts the final NUL
PQescapeByteaConn(bytes) ==
    << 92, 120 >> \o HexOf(bytes)

\* what PQescapeByteaConn may do: return the text; or return NULL, after
\* which snprintf("%s", NULL) either prints "(null)" or ends the process
EscapeOutcomes ==
    { "ok", "null, printed", "null, crash" }

\* snprintf(buf, size, "%s", text): at most size - 1 characters and a NUL,
\* nothing when size is 0
snprintf_s(buf, size, text) ==
    IF size = 0 THEN buf
    ELSE Store(buf, SubSeq(text, 1, IF Len(text) < size - 1 THEN Len(text)
                                    ELSE size - 1) \o << 0 >>)

\* the length PQescapeByteaConn stores is computed before it allocates the
\* result, so it is stored when NULL is returned as well
BlobBody(v, st, alloc, escape) ==
    LET escaped == IF escape = "ok" THEN PQescapeByteaConn(v.str)
                   ELSE << 40, 110, 117, 108, 108, 41 >>
        len  == Len(PQescapeByteaConn(v.str)) + 1
        grow == len > MAX_DIGITS
        buf  == IF grow THEN oml_realloc(st.buf, len, alloc.fill) ELSE st.buf
        st1  == [ st EXCEPT !.strlen = len,
                            !.ran = st.ran \o << "OML_BLOB_VALUE" >> ]
    IN  IF grow /\ ~alloc.ok
        THEN [ st1 EXCEPT !.fail = TRUE, !.buf = NullBuf ]
        ELSE IF buf = NullBuf
        THEN [ st1 EXCEPT !.fail = TRUE, !.crashed = TRUE ]
        ELSE IF escape = "null, crash"
        THEN [ st1 EXCEPT !.fail = TRUE, !.buf = buf, !.null_used = TRUE,
                          !.crashed = TRUE ]
        ELSE [ st1 EXCEPT !.buf = snprintf_s(buf, len, escaped),
                          !.over = @ \/ Overflows(buf, len),
                          !.null_used = escape # "ok" ]

BoolBody(v, st) ==
    LET digit == IF omlc_get_bool(v) # Zeros(4) THEN 49 ELSE 48
        text  == [ st EXCEPT !.buf = Store(st.buf, << digit, 0 >>),
                             !.over = @ \/ Overflows(st.buf, 2) ]
    IN  Encoded(text, psql_set_bool_value(omlc_get_bool(v), text.buf),
                "OML_BOOL_VALUE")

\* the elements of a vector as JSON, separated by commas: true or false
\* for a boolean, the decimal digits for a number
RECURSIVE JsonElements(_, _)
JsonElements(type, elts) ==
    IF elts = << >> THEN << >>
    ELSE (IF type # "OML_VECTOR_BOOL_VALUE" THEN sprintf_d(Head(elts))
          ELSE IF Head(elts) # 0 THEN << 116, 114, 117, 101 >>
          ELSE << 102, 97, 108, 115, 101 >>)
         \o (IF Tail(elts) = << >> THEN << >> ELSE << 44 >>)
         \o JsonElements(type, Tail(elts))

\* vector_<type>_to_json(ptr, nof_elts, &values[i]): the buffer holds the
\* JSON array of the elements as a C string, and is made as large as the
\* string when it was smaller
vector_to_json(type, elts, buf) ==
    LET text == << 91 >> \o JsonElements(type, elts) \o << 93, 0 >>
    IN  IF buf = NullBuf \/ Len(text) > Len(buf) THEN text
        ELSE Store(buf, text)

\* paramLength[i] and paramFormat[i] stay 0: a text parameter
VectorBody(label, v, st) ==
    [ st EXCEPT !.buf = vector_to_json(label, v.str, st.buf),
                !.ran = st.ran \o << label >> ]

CaseBody(label, v, st, alloc, escape) ==
    CASE label = "(no label)" ->
           Encoded(st, psql_set_long_value(omlc_get_long(v), st.buf), label)
      [] label = "OML_INT32_VALUE" ->
           Encoded(st, psql_set_int32_value(omlc_get_int32(v), st.buf), label)
      [] label = "OML_UINT32_VALUE" ->
           Encoded(st, psql_set_uint32_value(omlc_get_uint32(v), st.buf), label)
      [] label = "OML_INT64_VALUE" ->
           Encoded(st, psql_set_int64_value(omlc_get_int64(v), st.buf), label)
      [] label = "OML_UINT64_VALUE" ->
           Encoded(st, psql_set_uint64_value(omlc_get_uint64(v), st.buf), label)
      [] label = "OML_DOUBLE_VALUE" ->
           Encoded(st, psql_set_double_value(omlc_get_double(v), st.buf), label)
      [] label = "OML_GUID_VALUE" ->
           Encoded(st, psql_set_int64_value(omlc_get_guid(v), st.buf), label)
      [] label = "OML_BOOL_VALUE" ->
           BoolBody(v, st)
      [] label = "OML_STRING_VALUE" ->
           StringBody(v, st, alloc)
      [] label = "OML_BLOB_VALUE" ->
           BlobBody(v, st, alloc, escape)
      [] label \in VectorTypes ->
           VectorBody(label, v, st)

\* where switch (field->type) jumps to: the index of the matching label,
\* 0 for default
SwitchEntry(type) ==
    IF \E i \in 1..Len(SwitchCases) : SwitchCases[i] = type
    THEN CHOOSE i \in 1..Len(SwitchCases) : SwitchCases[i] = type
    ELSE 0

\* run the bodies from label i on, up to the first break
RECURSIVE RunFrom(_, _, _, _, _)
RunFrom(i, v, st, alloc, escape) ==
    LET st2 == CaseBody(SwitchCases[i], v, st, alloc, escape)
    IN  IF st2.fail \/ CaseBreaks(SwitchCases[i]) \/ i = Len(SwitchCases)
        THEN st2
        ELSE RunFrom(i + 1, v, st2, alloc, escape)

\* the switch statement for one column
EncodeColumn(type, v, buf, strlen, alloc, escape) ==
    LET st0 == [ buf |-> buf, len |-> 0, fmt |-> 0, strlen |-> strlen,
                 ran |-> << >>, fail |-> FALSE, over |-> FALSE,
                 null_used |-> FALSE, crashed |-> FALSE ]
    IN  IF SwitchEntry(type) = 0
        THEN [ st0 EXCEPT !.fail = TRUE, !.ran = << "default" >> ]
        ELSE RunFrom(SwitchEntry(type), v, st0, alloc, escape)

TypeMismatch_never(v, type) ==
    FALSE

\* the test that guards each column
TypeMismatch(v, type) ==
    oml_value_get_type(v) # type

\* the column loop from column k on; r is [ret, values, plen, pfmt, strlen,
\* ran, over, null_used, crashed]
RECURSIVE InsertColumns(_, _, _, _, _, _)
InsertColumns(k, fields, row, r, alloc, escape) ==
    IF k > Len(row) THEN r
    ELSE IF TypeMismatch(row[k], fields[k])
    THEN [ r EXCEPT !.ret = -1 ]
    ELSE LET st == EncodeColumn(fields[k], row[k], r.values[NMETA + k],
                                r.strlen, alloc, escape)
             r2 == [ r EXCEPT !.values[NMETA + k] = st.buf,
                              !.plen   = r.plen \o << st.len >>,
                              !.pfmt   = r.pfmt \o << st.fmt >>,
                              !.strlen = st.strlen,
                              !.ran    = r.ran \o << st.ran >>,
                              !.over   = IF st.over THEN @ \cup { k } ELSE @,
                              !.null_used = @ \/ st.null_used,
                              !.crashed = st.crashed ]
         IN  IF st.fail THEN [ r2 EXCEPT !.ret = -1 ]
             ELSE InsertColumns(k + 1, fields, row, r2, alloc, escape)

\* what PQexecPrepared reads for parameter i: the first paramLength bytes of
\* a binary parameter, the C string of a text parameter
BoundParam(buf, len, fmt) ==
    [ bytes |-> IF fmt = 1 THEN SubSeq(buf, 1, len) ELSE CStr(buf),
      len   |-> len,
      fmt   |-> fmt ]

-----------------------------------------------------------------------------
(* The transaction block of the connection (database_adapter.c)            *)

\* BEGIN: a transaction block is open from this second on
dba_begin_transaction(ok, t, cur) ==
    IF ok THEN [ rc |-> 0, txn |-> "open", at |-> t ]
    ELSE [ rc |-> -1, txn |-> cur.txn, at |-> cur.at ]

\* a reopen whose BEGIN does not start a new block
dba_reopen_transaction_stale(how, t, cur) ==
    CASE how = "ok"           -> [ rc |-> 0, txn |-> "open", at |-> cur.at ]
      [] how = "end_failed"   -> [ rc |-> -1, txn |-> cur.txn, at |-> cur.at ]
      [] how = "begin_failed" -> [ rc |-> -1, txn |-> "none", at |-> cur.at ]

\* COMMIT (a rollback when the block is poisoned), then BEGIN; how is "ok",
\* "end_failed" or "begin_failed"
dba_reopen_transaction(how, t, cur) ==
    CASE how = "ok"           -> [ rc |-> 0, txn |-> "open", at |-> t ]
      [] how = "end_failed"   -> [ rc |-> -1, txn |-> cur.txn, at |-> cur.at ]
      [] how = "begin_failed" -> [ rc |-> -1, txn |-> "none", at |-> cur.at ]

ReopenOutcomes ==
    { "ok", "end_failed", "begin_failed" }

\* COMMIT: the block is closed; when the statement fails the block stays
\* as it was
dba_end_transaction(ok, cur) ==
    IF ok THEN [ rc |-> 0, txn |-> "none", at |-> cur.at ]
    ELSE [ rc |-> -1, txn |-> cur.txn, at |-> cur.at ]

\* a statement in a poisoned block is refused; a failed statement poisons
\* an open block
StatementSucceeds(ok, cur) ==
    ok /\ cur # "aborted"

TxnAfterStatement(succeeded, cur) ==
    IF ~succeeded /\ cur = "open" THEN "aborted" ELSE cur

-----------------------------------------------------------------------------
(* psql_insert *)

NoStmt ==
    [ called |-> FALSE ]

HeartbeatDue_ge(t, lc) ==
    t >= lc

HeartbeatDue_late(t, lc) ==
    t > lc + 1

HeartbeatDue_never(t, lc) ==
    FALSE

\* tv.tv_sec > psqldb->last_commit
HeartbeatDue(t, lc) ==
    t > lc

LastCommitAfter_early(due, rc, t, lc) ==
    IF due THEN t ELSE lc

\* last_commit as psql_insert leaves it
LastCommitAfter(due, rc, t, lc) ==
    IF due /\ rc = 0 THEN t ELSE lc

\* the metadata parameters written before the clock is read
InsertHead(sender_id, seq_no, time_stamp) ==
    LET m1 == psql_set_int32_value(sender_id, values[1])
        m2 == psql_set_int32_value(seq_no, values[2])
        m3 == psql_set_double_value(time_stamp, values[3])
    IN  [ values |-> [ values EXCEPT ![1] = m1.buf, ![2] = m2.buf,
                                     ![3] = m3.buf ],
          plen   |-> << m1.len, m2.len, m3.len >> ]

\* the server timestamp, then the payload columns
InsertBody(head, t, row, alloc, escape) ==
    LET m4 == psql_set_double_value(DoubleMem(t - start_time), head.values[4])
        r0 == [ ret    |-> 0,
                values |-> [ head.values EXCEPT ![4] = m4.buf ],
                plen   |-> head.plen \o << m4.len >>,
                pfmt   |-> << 1, 1, 1, 1 >>,
                strlen |-> MAX_DIGITS,
                ran    |-> << >>,
                over   |-> { },
                null_used |-> FALSE,
                crashed |-> FALSE ]
    IN  InsertColumns(1, schema, row, r0, alloc, escape)

psql_insert(sender_id, seq_no, time_stamp, row, how, exec_ok, alloc, escape) ==
    \E t \in { now } :
    \E due \in { HeartbeatDue(t, last_commit) } :
    \E head \in { InsertHead(sender_id, seq_no, time_stamp) } :
    \E re \in { IF due
                THEN dba_reopen_transaction(how, t,
                         [ txn |-> txn, at |-> txnOpenedAt ])
                ELSE [ rc |-> 0, txn |-> txn, at |-> txnOpenedAt ] } :
    \E base \in { [ called |-> TRUE, t |-> t, lc_before |-> last_commit,
                    row |-> row, escape |-> escape,
                    prev |-> [ exec_failed   |-> ins.exec = "failed",
                               reopen_failed |-> ins.reopen = "failed",
                               t |-> IF ins.reopen = "failed" THEN ins.t
                                     ELSE 0 ] ] } :
        /\ last_commit' = LastCommitAfter(due, re.rc, t, last_commit)
        /\ txnOpenedAt' = re.at
        /\ reopens' = IF due /\ re.rc = 0
                      THEN [ reopens EXCEPT ![t] = @ + 1 ] ELSE reopens
        /\ IF due /\ re.rc = -1
           THEN /\ values' = head.values
                /\ txn' = re.txn
                /\ ins' = base @@ [ reopen |-> "failed", exec |-> "none",
                                    ret |-> -1, ran |-> << >>,
                                    params |-> << >>, txn_at_exec |-> "none",
                                    opened_at_exec |-> 0, over |-> { },
                                    null_used |-> FALSE, crashed |-> FALSE ]
           ELSE \E r \in { InsertBody(head, t, row, alloc, escape) } :
                \E good \in { StatementSucceeds(exec_ok, re.txn) } :
                IF r.ret = -1
                THEN /\ values' = r.values
                     /\ txn' = re.txn
                     /\ ins' = base @@
                            [ reopen |-> IF due THEN "ok" ELSE "none",
                              exec |-> "none", ret |-> -1, ran |-> r.ran,
                              params |-> << >>, txn_at_exec |-> "none",
                              opened_at_exec |-> 0, over |-> r.over,
                              null_used |-> r.null_used,
                              crashed |-> r.crashed ]
                ELSE /\ values' = r.values
                     /\ txn' = TxnAfterStatement(good, re.txn)
                     /\ ins' = base @@
                            [ reopen |-> IF due THEN "ok" ELSE "none",
                              exec   |-> IF good THEN "ok" ELSE "failed",
                              ret    |-> IF good THEN 0 ELSE -1,
                              ran    |-> r.ran,
                              params |-> [ i \in 1..(NMETA + Len(row)) |->
                                             BoundParam(r.values[i], r.plen[i],
                                                        r.pfmt[i]) ],
                              txn_at_exec |-> re.txn,
                              opened_at_exec |-> re.at, over |-> r.over,
                              null_used |-> r.null_used,
                              crashed |-> FALSE ]
        /\ UNCHANGED << now, clockBelow, start_time, schema, stm, dbHandle >>

-----------------------------------------------------------------------------
(* Inputs of the model *)

\* union memories: 0x04030201 with the upper half clear, and the same low
\* half under a non-zero upper half
Mems ==
    { << 1, 2, 3, 4, 0, 0, 0, 0 >>, << 1, 2, 3, 4, 5, 6, 7, 8 >> }

Strings ==
    { << >>, << 104, 105 >> }

\* blobs: empty, one byte, and one whose escaped text exceeds MAX_DIGITS
Blobs ==
    { << >>, << 171 >>, [ i \in 1..15 |-> 16 * i ] }

\* vectors: empty, and two elements
Vectors ==
    { << >>, << 1, 0 >> }

MismatchTypes ==
    { "OML_INT32_VALUE", "OML_STRING_VALUE" }

ValuesOfType(type) ==
    IF type = "OML_STRING_VALUE"
    THEN { [ type |-> type, mem |-> Zeros(8), str |-> s ] : s \in Strings }
    ELSE IF type = "OML_BLOB_VALUE"
    THEN { [ type |-> type, mem |-> Zeros(8), str |-> b ] : b \in Blobs }
    ELSE IF type \in VectorTypes
    THEN { [ type |-> type, mem |-> Zeros(8), str |-> e ] : e \in Vectors }
    ELSE { [ type |-> type, mem |-> m, str |-> << >> ] : m \in Mems }

\* the values offered for a column: every value of the column's type, and
\* one value of each other type in MismatchTypes
ColumnValues(type) ==
    ValuesOfType(type) \cup
    { [ type |-> o, mem |-> Zeros(8), str |-> << >> ] :
        o \in MismatchTypes \ { type } }

RECURSIVE Rows(_)
Rows(fields) ==
    IF fields = << >> THEN { << >> }
    ELSE { << v >> \o r : v \in ColumnValues(Head(fields)),
                          r \in Rows(Tail(fields)) }

\* the schemas of at most n fields over the types in T
RECURSIVE Schemas(_, _)
Schemas(T, n) ==
    IF n = 0 THEN { << >> }
    ELSE Schemas(T, n - 1) \cup
         { << f >> \o s : f \in T,
                          s \in { x \in Schemas(T, n - 1) : Len(x) = n - 1 } }

\* psql_table_create: a zeroed buffer of the type-map size per parameter,
\* MAX_DIGITS bytes where the size is variable
ScratchSize(type) ==
    IF psql_oml_to_size(type) < 1 THEN MAX_DIGITS ELSE psql_oml_to_size(type)

schema_metadata ==
    << "OML_INT32_VALUE", "OML_INT32_VALUE", "OML_DOUBLE_VALUE",
       "OML_DOUBLE_VALUE" >>

InitialValues(fields) ==
    [ i \in 1..(NMETA + Len(fields)) |->
        Zeros(ScratchSize(IF i <= NMETA THEN schema_metadata[i]
                          ELSE fields[i - NMETA])) ]

-----------------------------------------------------------------------------
(* psql_table_create *)

\* the table the session inserts into, and a second one
TableNames ==
    { "data", "aux" }

TableSchema(name) ==
    IF name = "data" THEN schema ELSE << "OML_DOUBLE_VALUE" >>

\* mstring_set (insert_name, "OMLInsert-"); mstring_cat (insert_name, name)
InsertName(name) ==
    "OMLInsert-" \o name

\* PGRES_COMMAND_OK for a statement of the session, an error otherwise
PQdescribePrepared(prep, stmt) ==
    IF stmt \in prep THEN "PGRES_COMMAND_OK" ELSE "PGRES_FATAL_ERROR"

\* a name can be prepared once per session, and not in a poisoned block
PQprepare(prep, stmt, ok, cur) ==
    IF ok /\ stmt \notin prep /\ cur # "aborted"
    THEN [ status |-> "PGRES_COMMAND_OK", prep |-> prep \cup { stmt } ]
    ELSE [ status |-> "PGRES_FATAL_ERROR", prep |-> prep ]

\* CREATE TABLE for the schema; 0 on success
dba_table_create_from_schema(ok) ==
    IF ok THEN 0 ELSE -1

NoHandle ==
    [ state |-> "none", insert_stmt |-> "", value_count |-> 0,
      values |-> << >> ]

NoTableCreate ==
    [ called |-> FALSE, missing |-> "none", null_deref |-> FALSE,
      crashed |-> FALSE ]

NoTableFree ==
    [ called |-> FALSE, crashed |-> FALSE ]

TablesIdle ==
    /\ prepared = { InsertName("data") }
    /\ tables = [ n \in TableNames |-> IF n = "data" THEN "valid" ELSE "none" ]
    /\ tc = NoTableCreate
    /\ tf = NoTableFree

\* undefined behaviour met on the way (a read of memory never written, a
\* read through a null pointer, a format that asks for an argument that was
\* not passed): the process dies, or the read yields something and the code
\* goes on
NullReadOutcomes ==
    { "crash", "goes on" }

\* the result of the call: ret, the connection afterwards, and what
\* table->handle points to. allocated tells what line 572 gave: "not yet"
\* when the call ended before it, "null" when oml_malloc returned NULL,
\* "yes" otherwise. A failure before line 572 leaves table->handle alone;
\* a later one leaves it NULL or pointing to freed memory. When the process
\* died there is no return value and no handle to speak of.
TableCreateEnd(name, ret, cur, prep, desc, prep_called, allocated, uninit, crashed) ==
    [ ret |-> ret, txn |-> cur.txn, at |-> cur.at, prep |-> prep,
      described |-> desc, prepare_called |-> prep_called,
      uninit_read |-> uninit, crashed |-> crashed,
      handle |-> IF crashed THEN [ NoHandle EXCEPT !.state = "lost" ]
                 ELSE IF ret = 0
                 THEN [ state |-> "valid", insert_stmt |-> InsertName(name),
                        value_count |-> Len(TableSchema(name)) + NMETA,
                        values |-> InitialValues(TableSchema(name)) ]
                 ELSE [ NoHandle EXCEPT !.state =
                          CASE allocated = "not yet" -> "kept"
                            [] allocated = "null"    -> "none"
                            [] OTHER                 -> "freed" ] ]

\* the index of the scratch buffer whose oml_malloc fails, 0 for none
ValueFailAt(fault, n) ==
    IF "first values[i]" \in fault THEN 1
    ELSE IF "last values[i]" \in fault THEN n
    ELSE 0

\* fail_exit (651-662) reached from lines 603 and 618, the PsqlTable not yet
\* written: when there is one, its value_count and values are read as they
\* were allocated, and it is freed
TableCreateFail(name, cur, prep, desc, prep_called, fault, ub_exit) ==
    IF "PsqlTable" \in fault
    THEN TableCreateEnd(name, -1, cur, prep, desc, prep_called, "null",
                        FALSE, FALSE)
    ELSE TableCreateEnd(name, -1, cur, prep, desc, prep_called, "yes",
                        TRUE, ub_exit = "crash")

\* lines 622-646: the PsqlTable is filled in and the scratch buffers are
\* allocated. Neither the PsqlTable nor the values array is tested for
\* NULL; a values[i] that cannot be allocated goes to fail_exit, which
\* reads every values[j], the ones after i never written
TableCreateFill(name, cur, prep, desc, prep_called, fault, ub_exit) ==
    LET n == Len(TableSchema(name)) + NMETA
        k == ValueFailAt(fault, n)
    IN  IF "PsqlTable" \in fault
        THEN TableCreateEnd(name, -1, cur, prep, desc, prep_called, "null",
                            FALSE, TRUE)
        ELSE IF "values" \in fault
        THEN TableCreateEnd(name, -1, cur, prep, desc, prep_called, "yes",
                            FALSE, TRUE)
        ELSE IF k = 0
        THEN TableCreateEnd(name, 0, cur, prep, desc, prep_called, "yes",
                            FALSE, FALSE)
        ELSE IF k = n
        THEN TableCreateEnd(name, -1, cur, prep, desc, prep_called, "yes",
                            FALSE, FALSE)
        ELSE TableCreateEnd(name, -1, cur, prep, desc, prep_called, "yes",
                            TRUE, ub_exit = "crash")

psql_table_create(name, had, t, shallow, create_ok, how1, how2, fault, ub_log, ub_exit) ==
    LET cur0 == [ txn |-> txn, at |-> txnOpenedAt ]
        stmt == InsertName(name)
    IN  IF ~shallow /\ dba_table_create_from_schema(create_ok) # 0
        THEN TableCreateEnd(name, -1,
                 [ cur0 EXCEPT !.txn = TxnAfterStatement(FALSE, cur0.txn) ],
                 prepared, "none", FALSE, "not yet", FALSE, FALSE)
        ELSE IF had # "none" /\ ub_log = "crash"
        THEN TableCreateEnd(name, -1, cur0, prepared, "none", FALSE,
                            "not yet", FALSE, TRUE)
        ELSE
        LET re1  == dba_reopen_transaction(how1, t, cur0)
            desc == PQdescribePrepared(prepared, stmt)
        IN  IF desc = "PGRES_COMMAND_OK"
            THEN TableCreateFill(name, re1, prepared, desc, FALSE, fault,
                                 ub_exit)
            ELSE
            LET re2 == dba_reopen_transaction(how2, t,
                          [ re1 EXCEPT !.txn = TxnAfterStatement(FALSE, re1.txn) ])
                pr  == PQprepare(prepared, stmt, "prepare" \notin fault,
                                 re2.txn)
                cur == [ re2 EXCEPT !.txn =
                           TxnAfterStatement(pr.status = "PGRES_COMMAND_OK",
                                             re2.txn) ]
            IN  IF "make" \in fault
                THEN TableCreateFail(name, re2, prepared, desc, FALSE, fault,
                                     ub_exit)
                ELSE IF pr.status # "PGRES_COMMAND_OK"
                THEN TableCreateFail(name, cur, pr.prep, desc, TRUE, fault,
                                     ub_exit)
                ELSE TableCreateFill(name, cur, pr.prep, desc, TRUE, fault,
                                     ub_exit)

\* what can go wrong after the table exists: building the INSERT text,
\* preparing it, and the allocations of the PsqlTable, of the values array
\* and of a scratch buffer, the first or the last
Faults ==
    { { }, { "make" }, { "prepare" }, { "PsqlTable" }, { "values" },
      { "first values[i]" }, { "last values[i]" },
      { "PsqlTable", "make" }, { "PsqlTable", "prepare" } }

\* a call of psql_table_create whose database and allocation outcomes are
\* drawn from the given sets. The DbTable passed is the one held for the
\* name, or a new one, whose handle is NULL; had is its handle on entry.
TableCreateWith(creates, hows, faults) ==
    /\ Alive
    /\ \E name \in TableNames, shallow \in BOOLEAN :
       \E create_ok \in IF shallow THEN { TRUE } ELSE creates :
       \E absent \in { InsertName(name) \notin prepared } :
       \E how1 \in IF create_ok THEN hows ELSE { "ok" } :
       \E how2 \in IF create_ok /\ absent THEN hows ELSE { "ok" } :
       \E fault \in IF ~create_ok THEN { { } }
                    ELSE IF absent THEN faults
                    ELSE { f \in faults : f \cap { "make", "prepare" } = { } } :
       \E had \in { tables[name], "none" } :
       \E ub_log \in IF create_ok /\ had # "none"
                     THEN NullReadOutcomes ELSE { "goes on" } :
       \E ub_exit \in IF create_ok /\ (absent \/ fault # { })
                         /\ fault \cap { "PsqlTable", "values",
                                         "last values[i]" } = { }
                      THEN NullReadOutcomes ELSE { "goes on" } :
         \E r \in { psql_table_create(name, had, now, shallow, create_ok,
                                      how1, how2, fault, ub_log, ub_exit) } :
            /\ txn' = r.txn
            /\ txnOpenedAt' = r.at
            /\ prepared' = r.prep
            /\ tables' = IF r.handle.state = "lost" THEN tables
                         ELSE IF r.handle.state = "kept"
                         THEN [ tables EXCEPT ![name] = had ]
                         ELSE [ tables EXCEPT ![name] = r.handle.state ]
            /\ values' = IF name = "data" /\ r.ret = 0 /\ ~r.crashed
                         THEN r.handle.values ELSE values
            /\ tc' = [ called |-> TRUE, name |-> name,
                       known_before |-> InsertName(name) \in prepared,
                       described |-> r.described,
                       prepare_called |-> r.prepare_called,
                       prepared_now |-> r.prep # prepared,
                       uninit_read |-> r.uninit_read,
                       inputs_ok |-> (shallow \/ create_ok) /\ fault = { },
                       ret |-> r.ret, handle |-> r.handle,
                       missing |-> "none", null_deref |-> FALSE,
                       crashed |-> r.crashed ]
    /\ UNCHANGED << now, clockBelow, start_time, last_commit, schema, ins, reopens, stm,
                    dbHandle, tf >>
    /\ UNCHANGED << senderVars, listVars, libVars >>

\* psql_table_free (671-691): a handle that is not NULL is read and freed,
\* and table->handle is left as it was. On a handle that points to freed
\* memory this reads and frees that memory again.
psql_table_free(state, ub) ==
    CASE state = "none"  -> [ ret |-> 0, state |-> "none",
                              freed_again |-> FALSE, crashed |-> FALSE ]
      [] state = "valid" -> [ ret |-> 0, state |-> "freed",
                              freed_again |-> FALSE, crashed |-> FALSE ]
      [] OTHER           -> [ ret |-> 0, state |-> "freed",
                              freed_again |-> TRUE,
                              crashed |-> ub = "crash" ]

PsqlTableFree ==
    /\ Alive
    /\ \E name \in TableNames :
       \E ub \in IF tables[name] = "freed" THEN NullReadOutcomes
                 ELSE { "goes on" } :
       \E r \in { psql_table_free(tables[name], ub) } :
          /\ tables' = [ tables EXCEPT ![name] = r.state ]
          /\ tf' = [ called |-> TRUE,
                     after_failed_create |->
                        tc.called /\ tc.name = name /\ tc.ret = -1
                        /\ tc.handle.state = "freed",
                     freed_again |-> r.freed_again, ret |-> r.ret,
                     crashed |-> r.crashed ]
    /\ UNCHANGED << prepared, tc >>
    /\ UNCHANGED << dbVars, senderVars, listVars, libVars >>

\* the arguments of a call with a missing pointer: db, table or
\* table->schema is NULL
MissingPointers ==
    { "db", "table", "table->schema" }

\* the pointers the arguments of the logdebug call at line 542 read through:
\* db->name, table->schema and table->schema->name
LogdebugReads ==
    { "db", "table", "table->schema" }

\* lines 542-555 for a call with a missing pointer: logdebug's arguments
\* db->name and table->schema->name are evaluated first, then the pointers
\* are tested in turn
TableCreateEntry(missing, outcome) ==
    LET null_deref == missing \in LogdebugReads
    IN  [ null_deref |-> null_deref,
          crashed |-> null_deref /\ outcome = "crash",
          ret |-> -1 ]

\* psql_table_create called with a missing pointer
PsqlTableCreateNull ==
    /\ Alive
    /\ \E name \in TableNames, missing \in MissingPointers,
          outcome \in NullReadOutcomes :
         \E e \in { TableCreateEntry(missing, outcome) } :
            tc' = [ called |-> TRUE, name |-> name,
                    known_before |-> InsertName(name) \in prepared,
                    described |-> "none", prepare_called |-> FALSE,
                    prepared_now |-> FALSE, uninit_read |-> FALSE,
                    inputs_ok |-> FALSE, ret |-> e.ret,
                    handle |-> [ NoHandle EXCEPT !.state = "kept" ],
                    null_deref |-> e.null_deref, crashed |-> e.crashed,
                    missing |-> missing ]
    /\ UNCHANGED << prepared, tables, tf >>
    /\ UNCHANGED << dbVars, senderVars, listVars, libVars >>

\* psql_table_create with every outcome of the database and the allocator
PsqlTableCreate ==
    TableCreateWith(BOOLEAN, ReopenOutcomes, Faults)

\* psql_table_create on a healthy connection
PsqlTableCreateOk ==
    TableCreateWith({ TRUE }, { "ok" }, { { } })

-----------------------------------------------------------------------------
(* psql_get_table_list *)

\* the largest number of user tables in the database
MaxTables == 3

UserTables ==
    { "_experiment_metadata", "_senders", "t1", "t2" }

\* what a table_<name> row can hold: two serialised schemas, and a text that
\* is none
MetaTexts ==
    { "1 t1 x:int32", "2 t2 x:int32 y:string", "t2 x;y" }

NullSchema ==
    << "NULL" >>

\* the schema a serialised schema stands for, NULL for any other text
schema_from_meta(meta) ==
    CASE meta = "1 t1 x:int32" -> << "OML_INT32_VALUE" >>
      [] meta = "2 t2 x:int32 y:string" ->
            << "OML_INT32_VALUE", "OML_STRING_VALUE" >>
      [] OTHER -> NullSchema

HaveMeta_always(rows, i) ==
    TRUE

SchemaQuery_norows(meta, tablename, ok, cur) ==
    [ status |-> "PGRES_TUPLES_OK", rows |-> << >> ]

\* the first loop: is "_experiment_metadata" among rows i+1 .. nrows
RECURSIVE HaveMeta(_, _)
HaveMeta(rows, i) ==
    IF i + 1 > Len(rows) THEN FALSE
    ELSE IF rows[i + 1] = "_experiment_metadata" THEN TRUE
    ELSE HaveMeta(rows, i + 1)

\* SELECT value FROM _experiment_metadata WHERE key='table_' || $1
SchemaQuery(meta, tablename, ok, cur) ==
    IF ~StatementSucceeds(ok, cur)
    THEN [ status |-> "PGRES_FATAL_ERROR", rows |-> << >> ]
    ELSE [ status |-> "PGRES_TUPLES_OK",
           rows |-> IF tablename \in DOMAIN meta THEN << meta[tablename] >>
                    ELSE << >> ]

table_descr_new(name, sch, ok) ==
    IF ok THEN << [ name |-> name, schema |-> sch ] >> ELSE << >>

GetTableListFail(st) ==
    [ st EXCEPT !.list = << >>, !.num_tables = -1, !.failed = TRUE ]

\* the second loop, from row i + 1 on; st holds the list built so far
RECURSIVE TableListLoop(_, _, _, _, _, _)
TableListLoop(rows, meta, i, st, qfail_at, afail_at) ==
    IF i + 1 > Len(rows) THEN st
    ELSE
    LET tablename == rows[i + 1]
        alloc_ok  == afail_at # i + 1
    IN  IF tablename = "_senders"
        THEN LET t == table_descr_new(tablename, NullSchema, alloc_ok)
             IN  TableListLoop(rows, meta, i + 1,
                    [ st EXCEPT !.list = t \o @,
                                !.num_tables = @ + Len(t) ],
                    qfail_at, afail_at)
        ELSE
        LET q   == SchemaQuery(meta, tablename, qfail_at # i + 1, st.txn)
            st1 == [ st EXCEPT !.txn =
                       TxnAfterStatement(q.status = "PGRES_TUPLES_OK", @) ]
        IN  IF q.status # "PGRES_TUPLES_OK" \/ Len(q.rows) <= 0
            THEN TableListLoop(rows, meta, i + 1, st1, qfail_at, afail_at)
            ELSE
            LET sch == schema_from_meta(q.rows[1])
                t   == table_descr_new(tablename, sch, alloc_ok)
            IN  IF sch = NullSchema
                THEN TableListLoop(rows, meta, i + 1, st1, qfail_at, afail_at)
                ELSE IF t = << >>
                THEN GetTableListFail(st1)
                ELSE TableListLoop(rows, meta, i + 1,
                        [ st1 EXCEPT !.list = t \o @,
                                     !.num_tables = @ + 1 ],
                        qfail_at, afail_at)

psql_get_table_list(rows, meta, prep, cur, list_ok, qfail_at, afail_at) ==
    LET p1  == PQprepare(prep, "OMLGetTableList", TRUE, cur)
        c1  == TxnAfterStatement(p1.status = "PGRES_COMMAND_OK", cur)
        st0 == [ list |-> << >>, num_tables |-> 0, failed |-> FALSE,
                 prep |-> p1.prep, txn |-> c1, listed |-> FALSE,
                 have_meta |-> FALSE ]
    IN  IF p1.status # "PGRES_COMMAND_OK" THEN GetTableListFail(st0)
        ELSE
        LET listed == StatementSucceeds(list_ok, c1)
            st1    == [ st0 EXCEPT !.txn = TxnAfterStatement(listed, c1),
                                   !.listed = listed ]
        IN  IF ~listed THEN GetTableListFail(st1)
            ELSE IF ~HaveMeta(rows, 0) THEN st1
            ELSE
            LET p2  == PQprepare(st1.prep, "OMLGetTableSchema", TRUE, st1.txn)
                st2 == [ st1 EXCEPT
                           !.prep = p2.prep, !.have_meta = TRUE,
                           !.txn = TxnAfterStatement(
                                      p2.status = "PGRES_COMMAND_OK", @) ]
            IN  IF p2.status # "PGRES_COMMAND_OK" THEN GetTableListFail(st2)
                ELSE TableListLoop(rows, meta, 0, st2, qfail_at, afail_at)

NoTableList ==
    [ called |-> FALSE ]

ListIdle ==
    /\ catalog = << >>
    /\ metaRows = << >>
    /\ gl = NoTableList

PsqlGetTableList ==
    /\ Alive
    /\ \E list_ok \in BOOLEAN, qfail_at \in 0..Len(catalog),
          afail_at \in 0..Len(catalog) :
         \E r \in { psql_get_table_list(catalog, metaRows, prepared, txn,
                                        list_ok, qfail_at, afail_at) } :
            /\ prepared' = r.prep
            /\ txn' = r.txn
            /\ gl' = [ called |-> TRUE, list |-> r.list,
                       num_tables |-> r.num_tables,
                       first_call |-> "OMLGetTableList" \notin prepared,
                       txn_before |-> txn, list_ok |-> list_ok,
                       listed |-> r.listed, failed |-> r.failed,
                       qfail_at |-> qfail_at, afail_at |-> afail_at ]
    /\ UNCHANGED << now, clockBelow, start_time, last_commit, txnOpenedAt, schema, values,
                    ins, reopens, stm, dbHandle, tables, tc, tf, catalog,
                    metaRows >>
    /\ UNCHANGED << senderVars, libVars >>

-----------------------------------------------------------------------------
(* The BufferedWriter (buffered_writer.c), with a stalled sink              *)

\* the largest number of pushes in a run
MaxPushes == 4

\* bw_create(outStream, queueCapacity, chainSize), and the size of a chunk
QueueCapacity == 4

ChainSize == 3

ChunkSize == 2

\* the largest size of one push
PushSizes == 1..2

RECURSIVE Held(_)
Held(chain) ==
    IF chain = << >> THEN 0 ELSE Len(Head(chain).bytes) + Held(Tail(chain))

\* the bytes go into the head chunk while it has room and into new chunks
\* after it; a chunk that takes metadata is a metadata chunk from then on
RECURSIVE ChainAppend(_, _, _)
ChainAppend(chain, bytes, is_meta) ==
    IF bytes = << >> THEN chain
    ELSE IF chain # << >> /\ Len(chain[Len(chain)].bytes) < ChunkSize
    THEN ChainAppend([ chain EXCEPT ![Len(chain)] =
                    [ meta  |-> @.meta \/ is_meta,
                      bytes |-> @.bytes \o << Head(bytes) >> ] ],
                Tail(bytes), is_meta)
    ELSE ChainAppend(chain \o << [ meta |-> is_meta, bytes |-> << >> ] >>,
                bytes, is_meta)

Fits(chain, bytes) ==
    /\ Held(chain) + Len(bytes) <= QueueCapacity
    /\ Len(ChainAppend(chain, bytes, FALSE)) <= ChainSize

Reclaimable_any(chunk) ==
    TRUE

\* back-pressure may discard a chunk that holds measurement data only
Reclaimable(chunk) ==
    ~chunk.meta

\* index of the oldest chunk that may be discarded, 0 when there is none
RECURSIVE OldestReclaimable(_, _)
OldestReclaimable(chain, i) ==
    IF i > Len(chain) THEN 0
    ELSE IF Reclaimable(chain[i]) THEN i
    ELSE OldestReclaimable(chain, i + 1)

Without(chain, i) ==
    SubSeq(chain, 1, i - 1) \o SubSeq(chain, i + 1, Len(chain))

\* discard chunks, oldest first, until the bytes fit or none is left to discard
RECURSIVE Reclaim(_, _, _)
Reclaim(chain, bytes, dropped) ==
    LET i == OldestReclaimable(chain, 1)
    IN  IF Fits(chain, bytes) \/ i = 0
        THEN [ chain |-> chain, dropped |-> dropped ]
        ELSE Reclaim(Without(chain, i), bytes, dropped \o << chain[i] >>)

\* the non-blocking push: what does not fit after reclaiming is rejected
bw_push(chain, bytes) ==
    LET r == Reclaim(chain, bytes, << >>)
    IN  IF Fits(r.chain, bytes)
        THEN [ count |-> Len(bytes), chain |-> ChainAppend(r.chain, bytes, FALSE),
               dropped |-> r.dropped, blocked |-> FALSE ]
        ELSE [ count |-> 0, chain |-> chain, dropped |-> << >>,
               blocked |-> FALSE ]

\* as bw_push, into the prologue as well; when nothing more can be
\* reclaimed the caller waits
bw_push_meta(chain, prologue, bytes) ==
    LET r == Reclaim(chain, bytes, << >>)
    IN  IF Fits(r.chain, bytes)
        THEN [ count |-> Len(bytes), chain |-> ChainAppend(r.chain, bytes, TRUE),
               prologue |-> prologue \o bytes,
               dropped |-> r.dropped, blocked |-> FALSE ]
        ELSE [ count |-> 0, chain |-> chain, prologue |-> prologue,
               dropped |-> << >>, blocked |-> TRUE ]

\* n bytes of one push, told apart by the kind and the number of the push
Payload(kind, k, n) ==
    [ i \in 1..n |-> << kind, k >> ]

NoPush ==
    [ called |-> FALSE ]

BwIdle ==
    /\ bwChain = << >>
    /\ bwPrologue = << >>
    /\ bwDropped = << >>
    /\ bwPushes = 0
    /\ bwLast = NoPush

BwPush ==
    /\ bwPushes < MaxPushes
    /\ \E n \in PushSizes :
       \E r \in { bw_push(bwChain, Payload("data", bwPushes + 1, n)) } :
          /\ bwChain' = r.chain
          /\ bwDropped' = bwDropped \o r.dropped
          /\ bwLast' = [ called |-> TRUE, op |-> "bw_push", size |-> n,
                         count |-> r.count, blocked |-> r.blocked,
                         dropped |-> r.dropped, before |-> bwChain ]
    /\ bwPushes' = bwPushes + 1
    /\ UNCHANGED bwPrologue
    /\ UNCHANGED << dbVars, senderVars, tableVars, listVars, uriVars, zlibVars >>

BwPushMeta ==
    /\ bwPushes < MaxPushes
    /\ \E n \in PushSizes :
       \E r \in { bw_push_meta(bwChain, bwPrologue,
                               Payload("meta", bwPushes + 1, n)) } :
          /\ bwChain' = r.chain
          /\ bwPrologue' = r.prologue
          /\ bwDropped' = bwDropped \o r.dropped
          /\ bwLast' = [ called |-> TRUE, op |-> "bw_push_meta", size |-> n,
                         count |-> r.count, blocked |-> r.blocked,
                         dropped |-> r.dropped, before |-> bwChain ]
    /\ bwPushes' = bwPushes + 1
    /\ UNCHANGED << dbVars, senderVars, tableVars, listVars, uriVars, zlibVars >>

-----------------------------------------------------------------------------
(* parse_uri (src/lib/ocomm/test/client.c). A C string is the sequence of   *)
(* its characters; a char* is a record that is null or points to one.       *)

NullPtr ==
    [ null |-> TRUE, s |-> << >> ]

Ptr(str) ==
    [ null |-> FALSE, s |-> str ]

strlen_or_0(ptr) ==
    IF ptr.null THEN 0 ELSE Len(ptr.s)

\* index of the first occurrence of character c in str, 0 when there is none
RECURSIVE IndexOf(_, _, _)
IndexOf(str, c, i) ==
    IF i > Len(str) THEN 0
    ELSE IF str[i] = c THEN i
    ELSE IndexOf(str, c, i + 1)

\* strsep(&p, delim) for a one-character delim: the token, and p afterwards
strsep(ptr, c) ==
    IF ptr.null THEN [ token |-> NullPtr, rest |-> NullPtr ]
    ELSE LET k == IndexOf(ptr.s, c, 1)
         IN  IF k = 0 THEN [ token |-> ptr, rest |-> NullPtr ]
             ELSE [ token |-> Ptr(SubSeq(ptr.s, 1, k - 1)),
                    rest  |-> Ptr(SubSeq(ptr.s, k + 1, Len(ptr.s))) ]

\* len >= Len(prefix) && !strncmp(str, prefix, Len(prefix))
StartsWith(str, prefix) ==
    Len(str) >= Len(prefix) /\ SubSeq(str, 1, Len(prefix)) = prefix

oml_uri_type(ptr) ==
    IF ptr.null THEN "OML_URI_UNKNOWN"
    ELSE IF StartsWith(ptr.s, << "f", "l", "u", "s", "h" >>)
    THEN "OML_URI_FILE_FLUSH"
    ELSE IF StartsWith(ptr.s, << "f", "i", "l", "e" >>) THEN "OML_URI_FILE"
    ELSE IF StartsWith(ptr.s, << "t", "c", "p" >>) THEN "OML_URI_TCP"
    ELSE IF StartsWith(ptr.s, << "u", "d", "p" >>) THEN "OML_URI_UDP"
    ELSE "OML_URI_UNKNOWN"

oml_uri_is_file(t) ==
    t \in { "OML_URI_FILE", "OML_URI_FILE_FLUSH" }

oml_uri_is_network(t) ==
    t \in { "OML_URI_TCP", "OML_URI_UDP" }

\* parts[] after the branch for a URI without an opening bracket
PlainParts(p0) ==
    LET first  == strsep(p0, ":")
        second == strsep(first.rest, ":")
    IN  << first.token, second.token, second.rest >>

BracketParts_plain(p0, rest0) ==
    PlainParts(p0)

\* parts[] after the branch for a URI with an opening bracket
BracketParts(p0, rest0) ==
    LET pre   == strsep(p0, ":")
        i     == IF p0.s # << >> THEN 1 ELSE 0
        inner == strsep(rest0, "]")
        after == strsep(inner.rest, ":")
    IN  IF i = 1
        THEN << pre.token, inner.token, after.rest >>
        ELSE << inner.token, after.rest, NullPtr >>

SplitUri(ptr) ==
    LET open == strsep(ptr, "[")
    IN  IF ~open.rest.null THEN BracketParts(open.token, open.rest)
        ELSE PlainParts(open.token)

trydup(parts, i) ==
    IF ~parts[i].null /\ Len(parts[i].s) > 0 THEN parts[i] ELSE NullPtr

\* if (uri_type != OML_URI_UNKNOWN) logwarn ("... assuming 'tcp:%s'")
WarnsAssumingTcp(uri_type) ==
    uri_type # "OML_URI_UNKNOWN"

\* ret, the three strings stored (stored is FALSE when *protocol, *path and
\* *port were not written), and whether the 'assuming tcp' warning was logged
UriResult(ret, stored, protocol, path, port, warned) ==
    [ ret |-> ret, stored |-> stored, protocol |-> protocol, path |-> path,
      port |-> port, warned |-> warned ]

parse_uri(ptr) ==
    IF ptr.null
    THEN UriResult(0, FALSE, NullPtr, NullPtr, NullPtr, FALSE)
    ELSE
    LET uri_type == oml_uri_type(ptr)
        parts    == SplitUri(ptr)
        lengths  == [ i \in 1..3 |-> strlen_or_0(parts[i]) ]
    IN  IF lengths[1] > 0 /\ lengths[2] > 0
        THEN IF oml_uri_is_network(uri_type)
             THEN UriResult(0, TRUE, trydup(parts, 1), trydup(parts, 2),
                            trydup(parts, 3), FALSE)
             ELSE IF oml_uri_is_file(uri_type)
             THEN UriResult(0, TRUE, trydup(parts, 1), trydup(parts, 2),
                            NullPtr, FALSE)
             ELSE UriResult(0, TRUE, NullPtr, trydup(parts, 1),
                            trydup(parts, 2), FALSE)
        ELSE IF lengths[1] > 0 /\ lengths[3] > 0
        THEN UriResult(-1, TRUE, NullPtr, NullPtr, NullPtr, FALSE)
        ELSE IF lengths[1] > 0
        THEN UriResult(0, TRUE, NullPtr, trydup(parts, 1), NullPtr,
                       WarnsAssumingTcp(uri_type))
        ELSE UriResult(-1, TRUE, NullPtr, NullPtr, NullPtr, FALSE)

\* the pieces a URI is put together from: a first token, a separator, an
\* opening bracket, a host, a closing bracket, a separator, a port
UriPieces ==
    << { << >>, << "t", "c", "p" >>, << "u", "d", "p" >>,
         << "f", "i", "l", "e" >>, << "f", "l", "u", "s", "h" >>,
         << "h", "o" >>, << "t", "c", "p", "h" >>, << "u", "d", "p", "1" >> },
       { << >>, << ":" >>, << ":", ":" >> },
       { << >>, << "[" >> },
       { << >>, << "h" >>, << ":", ":", "1" >>, << "/", "p" >> },
       { << >>, << "]" >> },
       { << >>, << ":" >> },
       { << >>, << "9" >>, << "9", ":", "9" >> } >>

RECURSIVE Joined(_)
Joined(pieces) ==
    IF pieces = << >> THEN { << >> }
    ELSE { a \o b : a \in Head(pieces), b \in Joined(Tail(pieces)) }

Uris ==
    { Ptr(str) : str \in Joined(UriPieces) } \cup { NullPtr }

NoParse ==
    [ called |-> FALSE ]

UriIdle ==
    /\ uri = NullPtr
    /\ parsed = NoParse

ParseUri ==
    /\ ~parsed.called
    /\ parsed' = [ called |-> TRUE ] @@ parse_uri(uri)
    /\ UNCHANGED uri
    /\ UNCHANGED << dbVars, senderVars, tableVars, listVars, bwVars, zlibVars >>

-----------------------------------------------------------------------------
(* oml_zlib_find_sync: the search for a resynchronisation marker          *)

\* the longest buffer handed to oml_zlib_find_sync
MaxBuf == 6

\* the byte values the buffers are made of: the bytes of the two markers
Bytes == { 0, 31, 139, 255 }

\* static char gziphdr[] = { 0x1f, 0x8b }
gziphdr == << 31, 139 >>

\* static char blockhdr[] = { 0x00, 0x00, 0xff, 0xff }
blockhdr == << 0, 0, 255, 255 >>

\* a NULL result of memmem; the other results are offsets from buf
NullOffset == -1

\* needle starts at offset i of hay
MatchesAt(hay, needle, i) ==
    /\ i + Len(needle) <= Len(hay)
    /\ \A k \in 1..Len(needle) : hay[i + k] = needle[k]

\* memmem that reads the whole buffer, whatever haylen says
memmem_unbounded(hay, haylen, needle) ==
    LET hits == { i \in 0..Len(hay) : MatchesAt(hay, needle, i) }
    IN  IF hits = { } THEN NullOffset
        ELSE CHOOSE i \in hits : \A j \in hits : i <= j

RECURSIVE memmem_from(_, _, _, _)
memmem_from(hay, haylen, needle, i) ==
    IF i + Len(needle) > haylen THEN NullOffset
    ELSE IF MatchesAt(hay, needle, i) THEN i
    ELSE memmem_from(hay, haylen, needle, i + 1)

\* memmem(3): the first occurrence of needle in the first haylen bytes
memmem(hay, haylen, needle) ==
    memmem_from(hay, haylen, needle, 0)

oml_zlib_find_sync(b, n) ==
    LET gziphdrptr  == IF n >= 2 THEN memmem(b, n, gziphdr) ELSE NullOffset
        blockhdrptr == IF n >= 4 THEN memmem(b, n, blockhdr) ELSE NullOffset
    IN  IF blockhdrptr # NullOffset /\ gziphdrptr = NullOffset
        THEN blockhdrptr
        ELSE IF gziphdrptr # NullOffset /\ blockhdrptr = NullOffset
        THEN gziphdrptr
        ELSE IF blockhdrptr # NullOffset /\ blockhdrptr < gziphdrptr
        THEN blockhdrptr
        ELSE IF gziphdrptr # NullOffset /\ gziphdrptr < blockhdrptr
        THEN gziphdrptr
        ELSE -1

RECURSIVE BytesOfLen(_)
BytesOfLen(n) ==
    IF n = 0 THEN { << >> }
    ELSE { Append(b, x) : b \in BytesOfLen(n - 1), x \in Bytes }

Buffers ==
    UNION { BytesOfLen(n) : n \in 0..MaxBuf }

NoSync ==
    [ called |-> FALSE, offset |-> -1 ]

SyncIdle ==
    /\ sync_buf = << >>
    /\ sync_len = 0
    /\ sync = NoSync

-----------------------------------------------------------------------------
(* oml_zlib_inf: inflate a file, resynchronising after damaged data        *)
(* zlib itself is the environment: each of its calls may return any of the *)
(* codes zlib.h documents for it.                                          *)

\* the most fread calls that find bytes in the source file
MaxChunks == 2

\* the most inflate calls followed in one run of oml_zlib_inf
MaxInflate == 4

\* the size of the in and out buffers, in units of output
OML_ZLIB_CHUNKSIZE == 2

\* what inflateInit2 may return
InitCodes == { "Z_OK", "Z_MEM_ERROR", "Z_VERSION_ERROR", "Z_STREAM_ERROR" }

\* what inflate may return
InflateCodes ==
    { "Z_OK", "Z_STREAM_END", "Z_NEED_DICT", "Z_DATA_ERROR", "Z_MEM_ERROR",
      "Z_BUF_ERROR", "Z_STREAM_ERROR" }

\* what inflateSync may return
SyncCodes == { "Z_OK", "Z_BUF_ERROR", "Z_DATA_ERROR" }

\* the last line: success whatever inflate said last
FinalReturn_ok(ret) ==
    "Z_OK"

\* return ret == Z_STREAM_END ? Z_OK : Z_DATA_ERROR
FinalReturn(ret) ==
    IF ret = "Z_STREAM_END" THEN "Z_OK" ELSE "Z_DATA_ERROR"

\* the state of a call that has not started, on a file of n chunks
ZlibInfEntry(n) ==
    [ pc |-> "entry", chunks |-> n, ret |-> "none", resynced |-> 0,
      avail_out |-> 0, calls |-> 0, last |-> "none", written |-> 0,
      damaged |-> FALSE, synced |-> FALSE, ends |-> 0,
      how |-> "none", result |-> "none" ]

\* the function returns code r, having ended in the way how
ZlibInfReturn(st, r, how, inflate_ended) ==
    [ st EXCEPT !.pc = "returned", !.result = r, !.how = how,
                !.ends = IF inflate_ended THEN @ + 1 ELSE @ ]

\* lines 138-146: inflateInit2
ZlibInfInit(st, init) ==
    IF init # "Z_OK" THEN ZlibInfReturn([ st EXCEPT !.ret = init ],
                                        init, "init failed", FALSE)
    ELSE [ st EXCEPT !.pc = "read", !.ret = init ]

\* lines 151-159: fread of the next chunk
ZlibInfRead(st, read_error) ==
    IF read_error THEN ZlibInfReturn(st, "Z_ERRNO", "read error", TRUE)
    ELSE IF st.chunks = 0
    THEN ZlibInfReturn(st, FinalReturn(st.ret), "input exhausted", TRUE)
    ELSE [ st EXCEPT !.pc = "inflate", !.chunks = @ - 1 ]

\* lines 174-192: the switch on what inflate returned
ZlibInfSwitch(st, r, sync_ret) ==
    IF r \in { "Z_NEED_DICT", "Z_DATA_ERROR" }
    THEN [ st EXCEPT !.ret = "Z_DATA_ERROR",
                     !.damaged = TRUE,
                     !.resynced = IF st.resynced = 1 THEN 2
                                  ELSE IF sync_ret = "Z_OK" THEN 1 ELSE @,
                     !.synced = @ \/ (st.resynced # 1 /\ sync_ret = "Z_OK") ]
    ELSE [ st EXCEPT !.ret = r ]

\* lines 162-205: one turn of the inner loop, and the outer test after it
ZlibInfInflate(st, r, produced, sync_ret, write_ok) ==
    LET s0 == [ st EXCEPT !.avail_out = IF st.resynced = 0
                                        THEN OML_ZLIB_CHUNKSIZE ELSE @ ]
        s1 == [ s0 EXCEPT !.avail_out = @ - produced,
                          !.calls = @ + 1, !.last = r ]
        s2 == ZlibInfSwitch(s1, r, sync_ret)
        have == OML_ZLIB_CHUNKSIZE - s2.avail_out
        s3 == [ s2 EXCEPT !.written = @ + have,
                          !.resynced = IF have > 0 THEN 0 ELSE @ ]
    IN  IF r = "Z_STREAM_ERROR"
        THEN ZlibInfReturn([ s1 EXCEPT !.ret = r ], "Z_STREAM_ERROR",
                           "stream error", FALSE)
        ELSE IF r = "Z_MEM_ERROR"
        THEN ZlibInfReturn(s2, "Z_MEM_ERROR", "memory error", TRUE)
        ELSE IF ~write_ok
        THEN ZlibInfReturn(s2, "Z_ERRNO", "write error", TRUE)
        ELSE IF s3.avail_out = 0 \/ s3.resynced # 0
        THEN s3
        ELSE IF s3.ret # "Z_STREAM_END"
        THEN [ s3 EXCEPT !.pc = "read" ]
        ELSE ZlibInfReturn(s3, FinalReturn(s3.ret), "stream end", TRUE)

InfIdle ==
    zi = ZlibInfEntry(0)

-----------------------------------------------------------------------------
(* oml_zlib_def: deflate a file.  zlib is the environment here as well.    *)

\* the most deflate calls followed in one run of oml_zlib_def
MaxDeflate == 3

\* what deflate may return
DeflateCodes == { "Z_OK", "Z_STREAM_END", "Z_BUF_ERROR", "Z_STREAM_ERROR" }

\* oml_zlib_def has not been called
NoDef ==
    [ pc |-> "idle", chunks |-> 0, flush |-> "none", ret |-> "none",
      avail_out |-> 0, calls |-> 0, ends |-> 0, how |-> "none",
      result |-> "none" ]

\* the state of a call that has not started, on a file that takes n reads
\* before the read that meets its end
ZlibDefEntry(n) ==
    [ NoDef EXCEPT !.pc = "entry", !.chunks = n ]

\* the function returns code r, having ended in the way how
ZlibDefReturn(st, r, how, deflate_ended) ==
    [ st EXCEPT !.pc = "returned", !.result = r, !.how = how,
                !.ends = IF deflate_ended THEN @ + 1 ELSE @ ]

\* lines 57-64: deflateInit2
ZlibDefInit(st, init) ==
    IF init # "Z_OK" THEN ZlibDefReturn([ st EXCEPT !.ret = init ],
                                        init, "init failed", FALSE)
    ELSE [ st EXCEPT !.pc = "read", !.ret = init ]

\* lines 69-75: fread of the next chunk, and the flush mode for it
ZlibDefRead(st, read_error) ==
    IF read_error THEN ZlibDefReturn(st, "Z_ERRNO", "read error", TRUE)
    ELSE [ st EXCEPT !.pc = "deflate",
                     !.flush = IF st.chunks = 0 THEN "Z_FINISH"
                               ELSE "Z_NO_FLUSH",
                     !.chunks = IF @ > 0 THEN @ - 1 ELSE 0 ]

\* lines 79-109: one turn of the inner loop, and the tests after it
ZlibDefDeflate(st, r, produced, write_ok, input_left) ==
    LET s1 == [ st EXCEPT !.avail_out = OML_ZLIB_CHUNKSIZE - produced,
                          !.calls = @ + 1, !.ret = r ]
    IN  IF r = "Z_STREAM_ERROR"
        THEN ZlibDefReturn(s1, r, "stream error", FALSE)
        ELSE IF ~write_ok
        THEN ZlibDefReturn(s1, "Z_ERRNO", "write error", TRUE)
        ELSE IF s1.avail_out = 0
        THEN s1
        ELSE IF input_left
        THEN ZlibDefReturn(s1, "Z_STREAM_ERROR", "input left", FALSE)
        ELSE IF s1.flush # "Z_FINISH"
        THEN [ s1 EXCEPT !.pc = "read" ]
        ELSE IF s1.ret # "Z_STREAM_END"
        THEN ZlibDefReturn(s1, "Z_STREAM_ERROR", "not finished", FALSE)
        ELSE ZlibDefReturn(s1, "Z_OK", "finished", TRUE)

DefIdle ==
    zd = NoDef

\* oml_zlib_def is entered and calls deflateInit2
DefInit ==
    /\ zd.pc = "entry"
    /\ \E init \in InitCodes : zd' = ZlibDefInit(zd, init)
    /\ UNCHANGED << syncVars, zi >>
    /\ UNCHANGED << dbVars, senderVars, tableVars, listVars, bwVars, uriVars >>

\* the outer loop reads the next chunk of the source file
DefRead ==
    /\ zd.pc = "read"
    /\ \E read_error \in BOOLEAN : zd' = ZlibDefRead(zd, read_error)
    /\ UNCHANGED << syncVars, zi >>
    /\ UNCHANGED << dbVars, senderVars, tableVars, listVars, bwVars, uriVars >>

\* the inner loop calls deflate and writes what it produced
DefDeflate ==
    /\ zd.pc = "deflate"
    /\ zd.calls < MaxDeflate
    /\ \E r \in DeflateCodes, write_ok \in BOOLEAN, input_left \in BOOLEAN :
       \E produced \in IF r = "Z_BUF_ERROR" THEN { 0 }
                       ELSE 0..OML_ZLIB_CHUNKSIZE :
           zd' = ZlibDefDeflate(zd, r, produced, write_ok, input_left)
    /\ UNCHANGED << syncVars, zi >>
    /\ UNCHANGED << dbVars, senderVars, tableVars, listVars, bwVars, uriVars >>

ZlibIdle ==
    SyncIdle /\ InfIdle /\ DefIdle

\* oml_zlib_inf is entered and calls inflateInit2
InfInit ==
    /\ zi.pc = "entry"
    /\ \E init \in InitCodes : zi' = ZlibInfInit(zi, init)
    /\ UNCHANGED << syncVars, zd >>
    /\ UNCHANGED << dbVars, senderVars, tableVars, listVars, bwVars, uriVars >>

\* the outer loop reads the next chunk of the source file
InfRead ==
    /\ zi.pc = "read"
    /\ \E read_error \in BOOLEAN : zi' = ZlibInfRead(zi, read_error)
    /\ UNCHANGED << syncVars, zd >>
    /\ UNCHANGED << dbVars, senderVars, tableVars, listVars, bwVars, uriVars >>

\* the inner loop calls inflate and writes what it produced
InfInflate ==
    /\ zi.pc = "inflate"
    /\ zi.calls < MaxInflate
    /\ \E r \in InflateCodes, write_ok \in BOOLEAN :
       \E produced \in IF r = "Z_BUF_ERROR" THEN { 0 }
                       ELSE 0..(IF zi.resynced = 0 THEN OML_ZLIB_CHUNKSIZE
                                ELSE zi.avail_out) :
       \E sync_ret \in IF r \in { "Z_NEED_DICT", "Z_DATA_ERROR" }
                          /\ zi.resynced # 1
                       THEN SyncCodes ELSE { "Z_OK" } :
           zi' = ZlibInfInflate(zi, r, produced, sync_ret, write_ok)
    /\ UNCHANGED << syncVars, zd >>
    /\ UNCHANGED << dbVars, senderVars, tableVars, listVars, bwVars, uriVars >>

\* an inflate call that makes no progress: a data error of a stream zlib
\* cannot decode, inflateSync finding no marker if it is called, or
\* Z_BUF_ERROR when no input is left and no output is due
NoProgress(st, r, produced, sync_ret) ==
    /\ r \in { "Z_DATA_ERROR", "Z_BUF_ERROR" }
    /\ produced = 0
    /\ ~( r = "Z_DATA_ERROR" /\ st.resynced # 1 /\ sync_ret = "Z_OK" )

\* the inner loop with zlib as it is bound to behave on a finite file: at
\* most MaxInflate calls decode something, while a call without progress can
\* be repeated as often as the loop asks for it
InfInflateLive ==
    /\ zi.pc = "inflate"
    /\ \E r \in InflateCodes, write_ok \in BOOLEAN :
       \E produced \in IF r = "Z_BUF_ERROR" THEN { 0 }
                       ELSE 0..(IF zi.resynced = 0 THEN OML_ZLIB_CHUNKSIZE
                                ELSE zi.avail_out) :
       \E sync_ret \in IF r \in { "Z_NEED_DICT", "Z_DATA_ERROR" }
                          /\ zi.resynced # 1
                       THEN SyncCodes ELSE { "Z_OK" } :
          /\ IF zi.calls < MaxInflate THEN TRUE
             ELSE NoProgress(zi, r, produced, sync_ret)
          /\ \E st \in { ZlibInfInflate(zi, r, produced, sync_ret, write_ok) } :
                zi' = [ st EXCEPT !.calls = IF @ > MaxInflate THEN MaxInflate
                                            ELSE @ ]
    /\ UNCHANGED << syncVars, zd >>
    /\ UNCHANGED << dbVars, senderVars, tableVars, listVars, bwVars, uriVars >>

FindSync ==
    /\ ~sync.called
    /\ sync' = [ called |-> TRUE, offset |-> oml_zlib_find_sync(sync_buf, sync_len) ]
    /\ UNCHANGED << sync_buf, sync_len, zi, zd >>
    /\ UNCHANGED << dbVars, senderVars, tableVars, listVars, bwVars, uriVars >>

\* the library code before any call
LibIdle ==
    BwIdle /\ UriIdle /\ ZlibIdle

-----------------------------------------------------------------------------
(* The session: psql_create_database, then inserts while the clock runs    *)

NoInsert ==
    [ called |-> FALSE, t |-> 0, lc_before |-> 0, row |-> << >>,
      escape |-> "ok",
      prev |-> [ exec_failed |-> FALSE, reopen_failed |-> FALSE, t |-> 0 ],
      reopen |-> "none", exec |-> "none", ret |-> 0, ran |-> << >>,
      params |-> << >>, txn_at_exec |-> "none", opened_at_exec |-> 0,
      over |-> { }, null_used |-> FALSE, crashed |-> FALSE ]

NoSender ==
    [ called |-> FALSE ]

NoKeyValue ==
    [ called |-> FALSE ]

KeyValueIdle ==
    /\ kvRows = << >>
    /\ kvLast = << >>
    /\ kv = NoKeyValue

SendersIdle ==
    /\ senders = << >>
    /\ firstId = << >>
    /\ snd = NoSender
    /\ KeyValueIdle

\* psql_create_database at second t0 for a table with the given fields:
\* last_commit = time(NULL), then BEGIN, whose result is not looked at
psql_create_database(t0, fields) ==
    /\ now = t0
    /\ clockBelow = FALSE
    /\ start_time = t0
    /\ last_commit = t0
    /\ \E ok \in BOOLEAN :
         LET b == dba_begin_transaction(ok, t0, [ txn |-> "none", at |-> t0 ])
         IN  txn = b.txn /\ txnOpenedAt = b.at
    /\ schema = fields
    /\ values = InitialValues(fields)
    /\ ins = NoInsert
    /\ reopens = [ s \in 0..MaxTime |-> 0 ]
    /\ stm = NoStmt
    /\ dbHandle = "open"

\* the tables of the session: one without payload columns, and one with a
\* fixed-size binary column followed by a text column
SessionTables ==
    { << >>, << "OML_INT32_VALUE", "OML_STRING_VALUE" >> }

Init ==
    /\ \E fields \in SessionTables : psql_create_database(0, fields)
    /\ SendersIdle
    /\ TablesIdle
    /\ ListIdle
    /\ LibIdle

\* the wall clock moves, forwards or backwards
Tick ==
    /\ \E t \in 0..MaxTime :
          /\ t # now
          /\ now' = t
          /\ clockBelow' = (clockBelow \/ t < last_commit)
    /\ UNCHANGED << start_time, last_commit, txn, txnOpenedAt, schema, values,
                    ins, reopens, stm, dbHandle >>
    /\ UNCHANGED << senderVars, tableVars, listVars, libVars >>

\* the row holds a blob that makes psql_insert reallocate
NeedsRealloc(row) ==
    \E k \in 1..Len(row) : Len(row[k].str) >= 15

PsqlInsert ==
    /\ Alive
    /\ tables["data"] = "valid"
    /\ \E row \in Rows(schema), exec_ok \in BOOLEAN,
          how \in IF HeartbeatDue(now, last_commit)
                  THEN ReopenOutcomes ELSE { "ok" } :
       \E alloc \in IF NeedsRealloc(row) THEN AllocOutcomes
                     ELSE { [ ok |-> TRUE, fill |-> 0 ] },
          escape \in IF \E k \in 1..Len(row) :
                           row[k].type = "OML_BLOB_VALUE"
                     THEN EscapeOutcomes ELSE { "ok" } :
         psql_insert(<< 1, 0, 0, 0 >>, << 7, 0, 0, 0 >>, DoubleMem(1), row,
                     how, exec_ok, alloc, escape)
    /\ UNCHANGED << senderVars, tableVars, listVars, libVars >>

\* the statements passed to sql_stmt, by what the server answers: a command
\* that returns no rows, a query that returns rows, the empty string, and
\* the statements that open and close the transaction block (END is COMMIT)
StmtKinds ==
    { "command", "query", "empty", "BEGIN", "COMMIT", "ROLLBACK" }

\* PQexec of one statement at second t, cur the block before it. ok is
\* FALSE when the server reports an error for it. In a poisoned block
\* every statement but COMMIT and ROLLBACK is refused, and both of these
\* end the block. A failing command or query poisons an open block; a
\* failing BEGIN, COMMIT or ROLLBACK leaves the block as it was. BEGIN
\* inside a block and COMMIT or ROLLBACK outside one are answered with a
\* warning and PGRES_COMMAND_OK.
PQexec(kind, ok, t, cur) ==
    LET control == kind \in { "BEGIN", "COMMIT", "ROLLBACK" }
        refused == cur.txn = "aborted" /\ kind \notin { "COMMIT", "ROLLBACK" }
    IN  IF kind = "empty"
        THEN [ status |-> "PGRES_EMPTY_QUERY", txn |-> cur.txn,
               at |-> cur.at ]
        ELSE IF ~ok \/ refused
        THEN [ status |-> "PGRES_FATAL_ERROR",
               txn |-> IF control THEN cur.txn
                       ELSE TxnAfterStatement(FALSE, cur.txn),
               at |-> cur.at ]
        ELSE IF kind = "query"
        THEN [ status |-> "PGRES_TUPLES_OK", txn |-> cur.txn, at |-> cur.at ]
        ELSE IF kind = "BEGIN"
        THEN [ status |-> "PGRES_COMMAND_OK", txn |-> "open",
               at |-> IF cur.txn = "none" THEN t ELSE cur.at ]
        ELSE IF kind = "command"
        THEN [ status |-> "PGRES_COMMAND_OK", txn |-> cur.txn,
               at |-> cur.at ]
        ELSE [ status |-> "PGRES_COMMAND_OK", txn |-> "none", at |-> cur.at ]

\* sql_stmt (376-396): PQexec of the statement; -1 unless the result is
\* PGRES_COMMAND_OK, so also for a query that succeeded and for the empty
\* string
sql_stmt(kind, ok, t, cur) ==
    LET res == PQexec(kind, ok, t, cur)
    IN  [ ret |-> IF res.status # "PGRES_COMMAND_OK" THEN -1 ELSE 0,
          txn |-> res.txn, at |-> res.at ]

\* psql_stmt (399-403): the statement is run on the connection of db
PsqlStmt ==
    /\ Alive
    /\ \E kind \in StmtKinds :
       \E ok \in IF kind = "empty" THEN { TRUE } ELSE BOOLEAN :
       \E r \in { sql_stmt(kind, ok, now,
                            [ txn |-> txn, at |-> txnOpenedAt ]) } :
          /\ txn' = r.txn
          /\ txnOpenedAt' = r.at
          /\ stm' = [ called |-> TRUE, ret |-> r.ret ]
    /\ UNCHANGED << now, clockBelow, start_time, last_commit, schema, values, ins,
                    reopens, dbHandle >>
    /\ UNCHANGED << senderVars, tableVars, listVars, libVars >>

\* psql_release (519-527): the block is ended once, the connection is
\* closed, and with it the block and the statements of the session; the
\* PsqlDB is freed and db->handle set to NULL
psql_release(end_ok, cur) ==
    LET e == dba_end_transaction(end_ok, cur)
    IN  [ ended |-> e.rc = 0, txn |-> "none", at |-> e.at, prep |-> { },
          handle |-> "null" ]

PsqlRelease ==
    /\ Alive
    /\ \E end_ok \in BOOLEAN :
       \E r \in { psql_release(end_ok,
                                [ txn |-> txn, at |-> txnOpenedAt ]) } :
          /\ txn' = r.txn
          /\ txnOpenedAt' = r.at
          /\ prepared' = r.prep
          /\ dbHandle' = r.handle
    /\ UNCHANGED << now, clockBelow, start_time, last_commit, schema, values, ins,
                    reopens, stm >>
    /\ UNCHANGED << tables, tc, tf >>
    /\ UNCHANGED << senderVars, listVars, libVars >>

Next ==
    \/ Tick
    \/ PsqlInsert

Spec ==
    Init /\ [][Next]_vars

\* every field type, one table, the clock standing still
InitEnc ==
    /\ \E fields \in Schemas(Types, MaxEncCols) :
         psql_create_database(0, fields)
    /\ SendersIdle
    /\ TablesIdle
    /\ ListIdle
    /\ LibIdle

NextEnc ==
    PsqlInsert

SpecEnc ==
    InitEnc /\ [][NextEnc]_vars

\* tables created one after the other on one connection, with failures
InitTables ==
    /\ psql_create_database(0, << >>)
    /\ SendersIdle
    /\ TablesIdle
    /\ ListIdle
    /\ LibIdle

NextTables ==
    \/ Tick
    \/ PsqlTableCreate
    \/ PsqlTableCreateNull
    \/ PsqlTableFree

SpecTables ==
    InitTables /\ [][NextTables]_vars

\* a session on a table without payload columns, in which tables are created
\* between the inserts
NextSession ==
    \/ Tick
    \/ PsqlInsert
    \/ PsqlTableCreateOk

SpecSession ==
    InitTables /\ [][NextSession]_vars

\* a connection on which statements are run between the inserts, until it
\* is released
NextConn ==
    \/ Tick
    \/ PsqlInsert
    \/ PsqlStmt
    \/ PsqlRelease

SpecConn ==
    InitTables /\ [][NextConn]_vars

\* the sequences of at most n different names of S
RECURSIVE Listings(_, _)
Listings(S, n) ==
    IF n = 0 THEN { << >> }
    ELSE { << >> } \cup
         { << x >> \o l : x \in S, l \in Listings(S, n - 1) }

Distinct(l) ==
    \A i, j \in 1..Len(l) : i # j => l[i] # l[j]

\* the databases a connection is opened on
InitList ==
    /\ psql_create_database(0, << >>)
    /\ SendersIdle
    /\ TablesIdle
    /\ catalog \in { l \in Listings(UserTables, MaxTables) : Distinct(l) }
    /\ \E D \in SUBSET (UserTables \ { "_senders", "_experiment_metadata" }) :
         metaRows \in [ D -> MetaTexts ]
    /\ gl = NoTableList
    /\ LibIdle

NextList ==
    PsqlGetTableList

SpecList ==
    InitList /\ [][NextList]_vars

-----------------------------------------------------------------------------
(* Sender ids: the _senders table behind psql_get_key_value and            *)
(* psql_set_key_value                                                      *)

Names ==
    { "alpha", "beta", "gamma" }

\* the null pointer, apart from every string of characters
NULL ==
    << -1 >>

RECURSIVE AtoiDigits(_, _)
AtoiDigits(s, acc) ==
    IF s = << >> \/ Head(s) < 48 \/ Head(s) > 57 THEN acc
    ELSE AtoiDigits(Tail(s), 10 * acc + (Head(s) - 48))

\* atoi: an optional sign, then the leading digits; 0 when there are none
atoi(s) ==
    IF s # << >> /\ Head(s) = 45 THEN -AtoiDigits(Tail(s), 0)
    ELSE AtoiDigits(s, 0)

\* the function f extended by k |-> v
With(f, k, v) ==
    [ n \in DOMAIN f \cup { k } |-> IF n = k THEN v ELSE f[n] ]

MaxOf(S) ==
    CHOOSE x \in S : \A y \in S : y <= x

Ids(tbl) ==
    { tbl[n] : n \in DOMAIN tbl }

\* SELECT id FROM _senders WHERE name='<key>': NULL when the query fails or
\* finds no row, else the id as text
psql_get_key_value(tbl, key, q_ok) ==
    IF ~q_ok THEN NULL
    ELSE IF key \notin DOMAIN tbl THEN NULL
    ELSE sprintf_d(tbl[key])

\* SELECT MAX(id) FROM _senders: an aggregate answers with one row, whose
\* value is null (read as the empty string) over an empty table
SelectMaxId(tbl, q_ok) ==
    IF ~q_ok THEN [ ok |-> FALSE, ntuples |-> 0, value |-> << >> ]
    ELSE [ ok |-> TRUE, ntuples |-> 1,
           value |-> IF DOMAIN tbl = {} THEN << >>
                     ELSE sprintf_d(MaxOf(Ids(tbl))) ]

\* the declared constraints of _senders: no second row for a name, no two
\* rows with one id
Admits(tbl, key, id, fresh) ==
    /\ fresh => key \notin DOMAIN tbl
    /\ \A n \in DOMAIN tbl \ { key } : tbl[n] # id

\* INSERT INTO "_senders" ("name", "id") VALUES ('<key>', '<id>')
InsertRow(tbl, key, id, stmt_ok) ==
    IF stmt_ok /\ Admits(tbl, key, id, TRUE)
    THEN [ rc |-> 0, tbl |-> With(tbl, key, id) ]
    ELSE [ rc |-> -1, tbl |-> tbl ]

\* UPDATE "_senders" SET "id"='<id>' WHERE "name"='<key>'
UpdateRow(tbl, key, id, stmt_ok) ==
    IF stmt_ok /\ key \in DOMAIN tbl /\ Admits(tbl, key, id, FALSE)
    THEN [ rc |-> 0, tbl |-> [ tbl EXCEPT ![key] = id ] ]
    ELSE [ rc |-> -1, tbl |-> tbl ]

\* looks the key up again, then inserts or updates; cur is the transaction
\* block before the call, txn the block after it: a statement in a poisoned
\* block is refused, a statement that fails poisons an open block
psql_set_key_value(tbl, key, value, q_ok, stmt_ok, cur) ==
    LET found == StatementSucceeds(q_ok, cur)
        cur1  == TxnAfterStatement(found, cur)
        r     == IF psql_get_key_value(tbl, key, found) = NULL
                 THEN InsertRow(tbl, key, atoi(value),
                                StatementSucceeds(stmt_ok, cur1))
                 ELSE UpdateRow(tbl, key, atoi(value),
                                StatementSucceeds(stmt_ok, cur1))
    IN  [ rc |-> r.rc, tbl |-> r.tbl,
          txn |-> TxnAfterStatement(r.rc = 0, cur1) ]

psql_get_sender_id(tbl, name, q_ok) ==
    psql_get_key_value(tbl, name, q_ok)

psql_set_sender_id(tbl, name, id, q_ok, stmt_ok, cur) ==
    psql_set_key_value(tbl, name, sprintf_d(id), q_ok, stmt_ok, cur)

\* the index psql_add_sender_id gives a name it did not find
NewSenderIndex(max) ==
    IF ~max.ok THEN 0
    ELSE IF max.ntuples = 0 THEN 0
    ELSE atoi(max.value) + 1

\* [ret, tbl, txn]: the returned index, the table and the transaction
\* block afterwards; cur is the block before the call
psql_add_sender_id(tbl, name, q1_ok, max_ok, q3_ok, stmt_ok, cur) ==
    LET got    == StatementSucceeds(q1_ok, cur)
        cur1   == TxnAfterStatement(got, cur)
        id_str == psql_get_sender_id(tbl, name, got)
        maxed  == StatementSucceeds(max_ok, cur1)
        cur2   == TxnAfterStatement(maxed, cur1)
        index  == NewSenderIndex(SelectMaxId(tbl, maxed))
        set    == psql_set_sender_id(tbl, name, index, q3_ok, stmt_ok, cur2)
    IN  IF id_str # NULL
        THEN [ ret |-> atoi(id_str), tbl |-> tbl, txn |-> cur1 ]
        ELSE [ ret |-> index, tbl |-> set.tbl, txn |-> set.txn ]

PsqlAddSenderId ==
    /\ Alive
    /\ IF DOMAIN senders = {} THEN TRUE ELSE MaxOf(Ids(senders)) < MaxId
    /\ \E name \in Names, q1_ok \in BOOLEAN, max_ok \in BOOLEAN,
          q3_ok \in BOOLEAN, stmt_ok \in BOOLEAN :
         \E r \in { psql_add_sender_id(senders, name, q1_ok, max_ok, q3_ok,
                                       stmt_ok, txn) } :
            /\ senders' = r.tbl
            /\ txn' = r.txn
            /\ firstId' = IF name \in DOMAIN firstId THEN firstId
                          ELSE With(firstId, name, r.ret)
            /\ snd' = [ called |-> TRUE, name |-> name, ret |-> r.ret,
                        all_ok |-> q1_ok /\ max_ok /\ q3_ok /\ stmt_ok
                                   /\ txn # "aborted",
                        known_before |-> name \in DOMAIN senders,
                        passed_before |-> name \in DOMAIN firstId,
                        empty_before |-> DOMAIN senders = {},
                        max_before |-> IF DOMAIN senders = {} THEN -1
                                       ELSE MaxOf(Ids(senders)) ]
    /\ UNCHANGED << now, clockBelow, start_time, last_commit, txnOpenedAt, schema,
                    values, ins, reopens, stm, dbHandle >>
    /\ UNCHANGED << tableVars, listVars, libVars, kvVars >>

InitSenders ==
    /\ psql_create_database(0, << >>)
    /\ SendersIdle
    /\ TablesIdle
    /\ ListIdle
    /\ LibIdle

NextSenders ==
    PsqlAddSenderId

SpecSenders ==
    InitSenders /\ [][NextSenders]_vars

-----------------------------------------------------------------------------
(* Experiment metadata: the _experiment_metadata(key TEXT, value TEXT)     *)
(* table behind psql_get_metadata and psql_set_metadata                    *)

\* the most rows followed in _experiment_metadata
MaxRows == 3

MetaKeys ==
    { "start_time", "table_data" }

\* the values set: the empty string and two others
MetaValues ==
    { << >>, << "1" >>, << "2" >> }

\* SELECT value FROM _experiment_metadata WHERE key='<key>': the values of
\* the rows found, in the order of the table
RECURSIVE SelectValues(_, _)
SelectValues(rows, key) ==
    IF rows = << >> THEN << >>
    ELSE IF Head(rows).key = key
    THEN << Head(rows).value >> \o SelectValues(Tail(rows), key)
    ELSE SelectValues(Tail(rows), key)

\* psql_get_key_value on _experiment_metadata: NULL when the query fails or
\* finds no row, else a copy of the value of the first row found
psql_get_metadata(rows, key, q_ok) ==
    IF ~q_ok THEN NullPtr
    ELSE IF Len(SelectValues(rows, key)) = 0 THEN NullPtr
    ELSE Ptr(SelectValues(rows, key)[1])

\* INSERT INTO "_experiment_metadata" ("key", "value") VALUES (...)
InsertKeyValue(rows, key, value) ==
    Append(rows, [ key |-> key, value |-> value ])

\* UPDATE "_experiment_metadata" SET "value"='<value>' WHERE "key"='<key>'
UpdateKeyValue(rows, key, value) ==
    [ i \in 1..Len(rows) |->
        IF rows[i].key = key THEN [ rows[i] EXCEPT !.value = value ]
        ELSE rows[i] ]

\* psql_set_key_value on _experiment_metadata: looks the key up, inserts
\* when the lookup gave NULL and updates otherwise; -1 when sql_stmt fails
psql_set_metadata(rows, key, value, q_ok, stmt_ok, cur) ==
    LET found == StatementSucceeds(q_ok, cur)
        cur1  == TxnAfterStatement(found, cur)
        check_value == psql_get_metadata(rows, key, found)
        after == IF check_value = NullPtr
                 THEN InsertKeyValue(rows, key, value)
                 ELSE UpdateKeyValue(rows, key, value)
        done  == StatementSucceeds(stmt_ok, cur1)
    IN  [ rc |-> IF done THEN 0 ELSE -1,
          rows |-> IF done THEN after ELSE rows,
          txn |-> TxnAfterStatement(done, cur1) ]

PsqlSetMetadata ==
    /\ Alive
    /\ Len(kvRows) < MaxRows
    /\ \E key \in MetaKeys, value \in MetaValues, q_ok \in BOOLEAN,
          stmt_ok \in BOOLEAN :
         \E r \in { psql_set_metadata(kvRows, key, value, q_ok, stmt_ok,
                                      txn) } :
            /\ kvRows' = r.rows
            /\ txn' = r.txn
            /\ kvLast' = IF r.rc = 0 THEN With(kvLast, key, value) ELSE kvLast
            /\ kv' = [ called |-> TRUE, op |-> "set", key |-> key,
                       q_ok |-> StatementSucceeds(q_ok, txn), rc |-> r.rc,
                       got |-> NullPtr ]
    /\ UNCHANGED << senders, firstId, snd >>
    /\ UNCHANGED << now, clockBelow, start_time, last_commit, txnOpenedAt, schema,
                    values, ins, reopens, stm, dbHandle >>
    /\ UNCHANGED << tableVars, listVars, libVars >>

PsqlGetMetadata ==
    /\ Alive
    /\ \E key \in MetaKeys, q_ok \in BOOLEAN :
       \E found \in { StatementSucceeds(q_ok, txn) } :
          /\ kv' = [ called |-> TRUE, op |-> "get", key |-> key,
                     q_ok |-> found, rc |-> 0,
                     got |-> psql_get_metadata(kvRows, key, found) ]
          /\ txn' = TxnAfterStatement(found, txn)
    /\ UNCHANGED << kvRows, kvLast >>
    /\ UNCHANGED << senders, firstId, snd >>
    /\ UNCHANGED << now, clockBelow, start_time, last_commit, txnOpenedAt, schema,
                    values, ins, reopens, stm, dbHandle >>
    /\ UNCHANGED << tableVars, listVars, libVars >>

\* metadata set and read back on a database whose table is empty
InitMeta ==
    /\ psql_create_database(0, << >>)
    /\ SendersIdle
    /\ TablesIdle
    /\ ListIdle
    /\ LibIdle

NextMeta ==
    \/ PsqlSetMetadata
    \/ PsqlGetMetadata

SpecMeta ==
    InitMeta /\ [][NextMeta]_vars

\* producers pushing into a BufferedWriter whose sink takes nothing
InitBw ==
    /\ psql_create_database(0, << >>)
    /\ txn = "open"
    /\ SendersIdle
    /\ TablesIdle
    /\ ListIdle
    /\ BwIdle
    /\ UriIdle
    /\ ZlibIdle

NextBw ==
    \/ BwPush
    \/ BwPushMeta

SpecBw ==
    InitBw /\ [][NextBw]_vars

\* parse_uri applied to each URI of Uris
InitUri ==
    /\ psql_create_database(0, << >>)
    /\ txn = "open"
    /\ SendersIdle
    /\ TablesIdle
    /\ ListIdle
    /\ BwIdle
    /\ uri \in Uris
    /\ parsed = NoParse
    /\ ZlibIdle

NextUri ==
    ParseUri

SpecUri ==
    InitUri /\ [][NextUri]_vars

\* oml_zlib_find_sync applied to each buffer of Buffers and each length
InitSync ==
    /\ psql_create_database(0, << >>)
    /\ txn = "open"
    /\ SendersIdle
    /\ TablesIdle
    /\ ListIdle
    /\ BwIdle
    /\ UriIdle
    /\ sync_buf \in Buffers
    /\ sync_len \in 0..Len(sync_buf)
    /\ sync = NoSync
    /\ InfIdle
    /\ DefIdle

NextSync ==
    FindSync

SpecSync ==
    InitSync /\ [][NextSync]_vars

\* oml_zlib_inf run on source files of up to MaxChunks chunks
InitInf ==
    /\ psql_create_database(0, << >>)
    /\ txn = "open"
    /\ SendersIdle
    /\ TablesIdle
    /\ ListIdle
    /\ BwIdle
    /\ UriIdle
    /\ SyncIdle
    /\ \E n \in 0..MaxChunks : zi = ZlibInfEntry(n)
    /\ DefIdle

NextInf ==
    \/ InfInit
    \/ InfRead
    \/ InfInflate

SpecInf ==
    InitInf /\ [][NextInf]_vars

\* oml_zlib_inf as a running call: the function is never suspended, so a
\* step that is possible is taken
NextInfLive ==
    \/ InfInit
    \/ InfRead
    \/ InfInflateLive

SpecInfLive ==
    InitInf /\ [][NextInfLive]_vars /\ WF_vars(NextInfLive)

\* oml_zlib_inf has not been called
NoInf ==
    [ ZlibInfEntry(0) EXCEPT !.pc = "idle" ]

\* one call of oml_zlib_inf or one call of oml_zlib_def, on source files of
\* up to MaxChunks chunks
InitZlib ==
    /\ psql_create_database(0, << >>)
    /\ txn = "open"
    /\ SendersIdle
    /\ TablesIdle
    /\ ListIdle
    /\ BwIdle
    /\ UriIdle
    /\ SyncIdle
    /\ \E n \in 0..MaxChunks :
          \/ zi = ZlibInfEntry(n) /\ zd = NoDef
          \/ zi = NoInf /\ zd = ZlibDefEntry(n)

NextZlib ==
    \/ InfInit
    \/ InfRead
    \/ InfInflate
    \/ DefInit
    \/ DefRead
    \/ DefDeflate

SpecZlib ==
    InitZlib /\ [][NextZlib]_vars

-----------------------------------------------------------------------------
(* Properties of psql_insert in a session (Spec)                           *)

MismatchAt(k) ==
    oml_value_get_type(ins.row[k]) # schema[k]

\* C1: psql_insert returns 0 only for a row whose every value has the type
\* of its column; a row with a value of another type gets -1 and the
\* prepared INSERT is not executed for it
C1_InsertTyping ==
    ins.called =>
      /\ ins.ret = 0 => \A k \in 1..Len(schema) : ~MismatchAt(k)
      /\ (\E k \in 1..Len(schema) : MismatchAt(k)) =>
            ins.ret = -1 /\ ins.exec = "none"

\* a row refused for its second value, after its first one was encoded
C1_Witness ==
    /\ ins.called /\ Len(schema) = 2
    /\ ~MismatchAt(1) /\ MismatchAt(2)
    /\ ins.ret = -1 /\ ins.exec = "none"
    /\ Len(ins.ran) = 1

\* C4: for any clock, also one that goes backwards, psql_insert reopens the
\* transaction successfully at most once per second value: only when the
\* second is strictly greater than last_commit, which then becomes that second
C4_HeartbeatOncePerSecond ==
    /\ \A s \in DOMAIN reopens : reopens[s] <= 1
    /\ ins.reopen = "ok" => ins.t > ins.lc_before /\ last_commit = ins.t

\* the clock went back from second 2, which had its reopen, to second 1, and
\* the insert there did not reopen
C4_Witness ==
    /\ reopens[2] = 1 /\ reopens[1] = 0
    /\ ins.called /\ ins.t = 1 /\ ins.lc_before = 2
    /\ ins.reopen = "none" /\ ins.exec = "ok"

\* C5, as claimed: when psql_insert executes its statement at second t,
\* last_commit >= t, and the transaction it runs in was opened no more than
\* one second (the commit interval) before t
C5_TransactionBound ==
    ins.exec # "none" =>
      /\ last_commit >= ins.t
      /\ ins.txn_at_exec # "none" => ins.t - ins.opened_at_exec <= 1

\* C5, amended: when psql_insert executes its statement at second t,
\* last_commit >= t; and as long as the wall clock has never read less than
\* last_commit, the transaction it runs in was opened no more than one second
\* before t
C5_TransactionBoundWhileClockNotBelow ==
    ins.exec # "none" =>
      /\ last_commit >= ins.t
      /\ ins.txn_at_exec # "none" /\ ~clockBelow =>
            ins.t - ins.opened_at_exec <= 1

\* the clock never read less than last_commit; an insert executed in the
\* transaction that a psql_table_create of the same second had opened, after
\* the heartbeat of that second
C5_Witness ==
    /\ ~clockBelow
    /\ ins.exec = "ok" /\ ins.reopen = "none" /\ ins.txn_at_exec = "open"
    /\ ins.t = 2 /\ last_commit = 2 /\ ins.opened_at_exec = 2
    /\ reopens[2] = 1 /\ tc.called /\ tc.ret = 0

C7_ReopenFailurePropagates ==
    /\ ins.reopen = "failed" =>
          ins.ret = -1 /\ ins.exec = "none" /\ last_commit = ins.lc_before
    /\ ins.called /\ ins.prev.reopen_failed => ins.reopen # "none"

\* C7, amended: a failed dba_reopen_transaction makes psql_insert return -1
\* without executing the statement and without touching last_commit; the
\* following psql_insert finds last_commit below the second of the failed
\* call and tries the reopen again exactly when its own second is greater
\* than last_commit, which it is whenever the clock has not gone back
\* between the two calls
C7_ReopenFailureRetriedWhenDue ==
    /\ ins.reopen = "failed" =>
          ins.ret = -1 /\ ins.exec = "none" /\ last_commit = ins.lc_before
    /\ ins.called /\ ins.prev.reopen_failed =>
          /\ ins.lc_before < ins.prev.t
          /\ ins.reopen # "none" <=> ins.t > ins.lc_before
          /\ ins.t >= ins.prev.t => ins.reopen # "none"

\* the insert that followed a failed reopen reopened and executed
C7_Witness ==
    /\ ins.called /\ ins.prev.reopen_failed
    /\ ins.reopen = "ok" /\ ins.exec = "ok"

-----------------------------------------------------------------------------
(* Properties of the per-type dispatcher (SpecEnc)                         *)

\* C8, as claimed: for every payload column of an executed row exactly one
\* case body ran, the one of the column's type
C8_OneEncoderPerColumn ==
    ins.exec = "ok" =>
       \A k \in 1..Len(schema) : ins.ran[k] = << schema[k] >>

\* C9, as claimed: a long value in a long column is bound as 4 big-endian
\* bytes in binary format and the statement is executed
C9_LongEncoded ==
    /\ ins.called /\ Len(schema) >= 1
    /\ schema[1] = "OML_LONG_VALUE" /\ ~MismatchAt(1)
    => /\ ins.exec # "none"
       /\ ins.params[NMETA + 1] =
             [ bytes |-> htonl(ins.row[1].mem), len |-> 4, fmt |-> 1 ]

\* C10, as claimed: a uint32 value is bound as the 8 big-endian bytes of the
\* value zero-extended to 64 bits
C10_Uint32ZeroExtended ==
    /\ ins.exec = "ok" /\ Len(schema) >= 1
    /\ schema[1] = "OML_UINT32_VALUE"
    => ins.params[NMETA + 1] =
          [ bytes |-> Zeros(4) \o htonl(ins.row[1].mem), len |-> 8,
            fmt |-> 1 ]

-----------------------------------------------------------------------------
(* Properties of psql_table_create (SpecTables)                            *)

\* C11: PQprepare is called for "OMLInsert-<table>" only after
\* PQdescribePrepared reported the statement absent; a psql_table_create for
\* a table whose statement the session already holds does not call PQprepare
\* and, the table existing and the buffers being allocated, returns 0 with a
\* handle that names the statement and holds nfields + NMETA zeroed buffers
C11_PrepareOnlyWhenAbsent ==
    tc.called =>
      /\ tc.prepare_called =>
            tc.described # "PGRES_COMMAND_OK" /\ ~tc.known_before
      /\ tc.known_before =>
            /\ ~tc.prepare_called /\ ~tc.prepared_now
            /\ tc.inputs_ok =>
                  /\ tc.ret = 0
                  /\ tc.handle =
                        [ state |-> "valid",
                          insert_stmt |-> InsertName(tc.name),
                          value_count |-> Len(TableSchema(tc.name)) + NMETA,
                          values |-> InitialValues(TableSchema(tc.name)) ]

-----------------------------------------------------------------------------
(* Properties of psql_get_table_list (SpecList)                            *)

Enumerated ==
    { catalog[i] : i \in 1..Len(catalog) }

Returned ==
    { gl.list[i] : i \in 1..Len(gl.list) }

\* the descriptors the claim lists: _senders with a null schema, and every
\* other enumerated table whose table_<name> row exists and parses
Described ==
    { [ name |-> n, schema |-> NullSchema ] : n \in Enumerated \cap { "_senders" } }
    \cup
    { [ name |-> n, schema |-> schema_from_meta(metaRows[n]) ] :
        n \in { m \in (Enumerated \ { "_senders" }) \cap DOMAIN metaRows :
                 schema_from_meta(metaRows[m]) # NullSchema } }

SendersDescrAllocated ==
    gl.afail_at = 0 \/ catalog[gl.afail_at] # "_senders"

\* the row of the first schema query that the server fails, 0 when there is
\* none: no schema query is sent for _senders
FirstFailedQuery ==
    IF gl.qfail_at # 0 /\ catalog[gl.qfail_at] # "_senders"
    THEN gl.qfail_at ELSE 0

\* the schema query of row i failed: it is the first one to fail, or it comes
\* after it inside the transaction block that the failure poisoned
SchemaQueryFailed(i) ==
    /\ FirstFailedQuery # 0
    /\ \/ i = FirstFailedQuery
       \/ i > FirstFailedQuery /\ gl.txn_before # "none"

\* the descriptors of Described that the call could build: the one of
\* _senders when its allocation succeeded, and those of the tables whose
\* schema query succeeded
Listed ==
    { d \in Described :
        \E i \in 1..Len(catalog) :
           /\ catalog[i] = d.name
           /\ IF d.name = "_senders" THEN SendersDescrAllocated
              ELSE ~SchemaQueryFailed(i) }

\* C12, as claimed: a successful psql_get_table_list returns exactly the
\* descriptors of Described, once each, and *num_tables is their number
C12_TableListExact ==
    gl.called /\ gl.num_tables >= 0 =>
      /\ Returned = Described
      /\ Cardinality(Returned) = Len(gl.list)
      /\ gl.num_tables = Len(gl.list)

\* C12, amended: a successful psql_get_table_list on a database without
\* _experiment_metadata returns the empty list, also when _senders was
\* enumerated; otherwise it returns exactly the descriptors of Described
\* less the tables whose schema query failed and less _senders when its
\* descriptor could not be allocated, once each; *num_tables is the number
\* of descriptors returned
C12_TableListExactWithMetadata ==
    gl.called /\ gl.num_tables >= 0 =>
      /\ Cardinality(Returned) = Len(gl.list)
      /\ gl.num_tables = Len(gl.list)
      /\ IF "_experiment_metadata" \notin Enumerated
         THEN gl.list = << >>
         ELSE Returned = Listed

\* _senders and a table whose schema row does not parse were enumerated; the
\* list holds the _senders descriptor alone
C12_Witness ==
    /\ gl.called /\ gl.num_tables = 1 /\ Len(catalog) = 3
    /\ "t2" \in Enumerated \cap DOMAIN metaRows
    /\ schema_from_meta(metaRows["t2"]) = NullSchema
    /\ gl.list = << [ name |-> "_senders", schema |-> NullSchema ] >>

\* C13: the first psql_get_table_list of a connection, its listing query
\* having succeeded, on a database without _experiment_metadata returns the
\* empty list and *num_tables = 0
C13_NoMetadataIsEmptyNotError ==
    gl.called /\ gl.first_call /\ gl.listed
    /\ "_experiment_metadata" \notin Enumerated
    => gl.list = << >> /\ gl.num_tables = 0

\* a database that holds _senders and one more table, but no metadata table
C13_Witness ==
    /\ gl.called /\ gl.first_call /\ gl.listed
    /\ Enumerated = { "_senders", "t1" }
    /\ gl.list = << >> /\ gl.num_tables = 0

-----------------------------------------------------------------------------
(* Properties of the BufferedWriter (SpecBw)                               *)

IsDataChunk(chunk) ==
    ~chunk.meta

IsMetaByte(b) ==
    b[1] = "meta"

RECURSIVE Flat(_)
Flat(chain) ==
    IF chain = << >> THEN << >> ELSE Head(chain).bytes \o Flat(Tail(chain))

\* C14: with the sink stalled, what back-pressure has discarded are whole
\* chunks of measurement data, at each push the oldest ones of the chain; no
\* metadata byte is among them and every metadata byte accepted is still
\* queued; a bw_push_meta that finds only metadata chunks and no room blocks
\* and discards nothing
C14_MetadataNeverDropped ==
    /\ \A i \in 1..Len(bwDropped) :
          /\ ~bwDropped[i].meta
          /\ \A j \in 1..Len(bwDropped[i].bytes) :
                ~IsMetaByte(bwDropped[i].bytes[j])
    /\ SelectSeq(Flat(bwChain), IsMetaByte) = bwPrologue
    /\ bwLast.called =>
          /\ bwLast.dropped =
                SubSeq(SelectSeq(bwLast.before, IsDataChunk), 1,
                       Len(bwLast.dropped))
          /\ /\ bwLast.op = "bw_push_meta"
             /\ SelectSeq(bwLast.before, IsDataChunk) = << >>
             /\ ~Fits(bwLast.before, Payload("meta", bwPushes, bwLast.size))
             => /\ bwLast.blocked /\ bwLast.dropped = << >>
                /\ bwChain = bwLast.before

\* a push discarded a chunk of measurement data that was younger than a
\* metadata chunk, which stayed
C14_Witness ==
    /\ bwLast.called /\ bwLast.dropped # << >>
    /\ bwLast.before[1].meta /\ bwChain[1] = bwLast.before[1]

-----------------------------------------------------------------------------
(* Properties of parse_uri (SpecUri)                                       *)

SchemeNames ==
    { << "f", "i", "l", "e" >>, << "f", "l", "u", "s", "h" >>,
      << "t", "c", "p" >>, << "u", "d", "p" >> }

HasChar(str, c) ==
    \E i \in 1..Len(str) : str[i] = c

\* the URI is host:port, both non-empty, with one colon and no bracket
IsHostPort(str, host, port) ==
    /\ str = host \o << ":" >> \o port
    /\ host # << >> /\ port # << >>
    /\ ~HasChar(host, ":") /\ ~HasChar(port, ":")
    /\ ~HasChar(str, "[") /\ ~HasChar(str, "]")

\* C15, as claimed: "host:port" whose first token is none of file, flush,
\* tcp, udp gives 0 with protocol = null, path = host and port = port
C15_HostPortWithoutScheme ==
    parsed.called /\ ~uri.null =>
      \A k \in 1..Len(uri.s) :
        LET host == SubSeq(uri.s, 1, k - 1)
            port == SubSeq(uri.s, k + 1, Len(uri.s))
        IN  IsHostPort(uri.s, host, port) /\ host \notin SchemeNames =>
              /\ parsed.ret = 0 /\ parsed.protocol = NullPtr
              /\ parsed.path = Ptr(host) /\ parsed.port = Ptr(port)

\* the URI is one non-empty token that begins with no scheme name
IsSchemelessToken(ptr) ==
    /\ ~ptr.null /\ ptr.s # << >>
    /\ ~HasChar(ptr.s, ":") /\ ~HasChar(ptr.s, "[") /\ ~HasChar(ptr.s, "]")
    /\ \A n \in SchemeNames : ~StartsWith(ptr.s, n)

\* C16, as claimed: a single token without a known scheme gives 0 with
\* path = token and port = null, and the 'assuming tcp' warning is logged for
\* these URIs and for no other
C16_SingleTokenAssumesTcp ==
    parsed.called =>
      /\ IsSchemelessToken(uri) =>
            /\ parsed.ret = 0 /\ parsed.path = uri
            /\ parsed.port = NullPtr
      /\ parsed.warned <=> IsSchemelessToken(uri)

\* C17: "proto:[addr]:port" and "proto:[addr]", proto being tcp or udp, give
\* 0 with protocol = proto, path = addr without the brackets (colons
\* included) and port = port, null when there is none
C17_BracketedAddress ==
    parsed.called /\ ~uri.null =>
      \A proto \in { << "t", "c", "p" >>, << "u", "d", "p" >> },
         addr \in UriPieces[4] \ { << >> }, port \in UriPieces[7] :
        uri.s = proto \o << ":", "[" >> \o addr \o << "]" >> \o
                (IF port = << >> THEN << >> ELSE << ":" >> \o port)
        => /\ parsed.ret = 0 /\ parsed.protocol = Ptr(proto)
           /\ parsed.path = Ptr(addr)
           /\ parsed.port = IF port = << >> THEN NullPtr ELSE Ptr(port)

\* tcp:[::1]:9 was parsed into tcp, ::1 and 9
C17_Witness ==
    /\ parsed.called
    /\ uri = Ptr(<< "t", "c", "p", ":", "[", ":", ":", "1", "]", ":", "9" >>)
    /\ parsed.ret = 0 /\ parsed.protocol = Ptr(<< "t", "c", "p" >>)
    /\ parsed.path = Ptr(<< ":", ":", "1" >>) /\ parsed.port = Ptr(<< "9" >>)

-----------------------------------------------------------------------------
(* Properties of the sender-id allocation (SpecSenders)                    *)

\* C2, as claimed: with every query succeeding, a name not yet in _senders
\* gets 0 when the table is empty and the largest stored id plus one
\* otherwise, and the pair is stored
C2_SenderAllocation ==
    snd.called /\ snd.all_ok /\ ~snd.known_before =>
      /\ snd.ret = IF snd.empty_before THEN 0 ELSE snd.max_before + 1
      /\ snd.name \in DOMAIN senders /\ senders[snd.name] = snd.ret

\* C3, as claimed: a name passed before gets the id its first call returned
C3_SenderIdStable ==
    snd.called /\ snd.passed_before => snd.ret = firstId[snd.name]

-----------------------------------------------------------------------------
(* Properties of oml_zlib_find_sync (SpecSync)                             *)

\* the offsets at which a marker starts and ends within the first n bytes
MarkerOffsets(b, n) ==
    { i \in 0..n :
          \/ i + 2 <= n /\ b[i + 1] = 31 /\ b[i + 2] = 139
          \/ i + 4 <= n /\ b[i + 1] = 0 /\ b[i + 2] = 0
                        /\ b[i + 3] = 255 /\ b[i + 4] = 255 }

\* C20: oml_zlib_find_sync(buf, len) is the smallest offset at which the gzip
\* magic 1F 8B or the block marker 00 00 FF FF lies completely within the
\* first len bytes of buf, and -1 when there is none; being a function of the
\* first len bytes alone, it does not depend on the bytes from index len on.
C20_SmallestMarkerOffset ==
    sync.called =>
        /\ MarkerOffsets(sync_buf, sync_len) = { } => sync.offset = -1
        /\ MarkerOffsets(sync_buf, sync_len) # { } =>
               /\ sync.offset \in MarkerOffsets(sync_buf, sync_len)
               /\ \A i \in MarkerOffsets(sync_buf, sync_len) : sync.offset <= i
        /\ sync.offset = oml_zlib_find_sync(SubSeq(sync_buf, 1, sync_len), sync_len)

\* C20 witness: the block marker lies within len and is found at offset 0; a
\* gzip magic that starts in the last byte before len ends after it.
C20_Witness ==
    /\ sync.called
    /\ sync_len = 5
    /\ Len(sync_buf) = 6
    /\ sync.offset = 0
    /\ SubSeq(sync_buf, 1, 4) = blockhdr
    /\ SubSeq(sync_buf, 5, 6) = gziphdr

-----------------------------------------------------------------------------
(* Properties of oml_zlib_inf (SpecInf)                                    *)

\* C18: oml_zlib_inf returns Z_OK if and only if its last inflate call
\* returned Z_STREAM_END.
C18_OkIffStreamEnd ==
    zi.pc = "returned" =>
        (zi.result = "Z_OK" <=> zi.last = "Z_STREAM_END")

\* C18, amended: oml_zlib_inf returns Z_OK if and only if its last inflate
\* call returned Z_STREAM_END and what that call produced was written to dest
\* without error; when it ends in any other way (inflateInit2 failed, input
\* exhausted first, data error, memory error, I/O error, stream error) it
\* returns a value other than Z_OK.
C18_OkIffStreamEndAndWritten ==
    zi.pc = "returned" =>
        /\ zi.result = "Z_OK" <=>
               (zi.last = "Z_STREAM_END" /\ zi.how # "write error")
        /\ zi.how # "stream end" => zi.result # "Z_OK"
        /\ zi.how = "stream end" => zi.last = "Z_STREAM_END"

\* C18 witness: a run in which inflate produced output over two chunks and
\* then reported the end of the stream, and the function returned Z_OK.
C18_Witness ==
    /\ zi.pc = "returned"
    /\ zi.result = "Z_OK"
    /\ zi.last = "Z_STREAM_END"
    /\ zi.calls >= 2
    /\ zi.written > 0
    /\ zi.chunks = 0

\* C19: when the source file ends before the end of its compressed stream and
\* inflateSync found a marker after damaged data, oml_zlib_inf returns Z_OK.
C19_TruncatedAfterResyncIsOk ==
    ( /\ zi.pc = "returned"
      /\ zi.how = "input exhausted"
      /\ zi.damaged
      /\ zi.synced ) => zi.result = "Z_OK"

-----------------------------------------------------------------------------
(* Properties of the metadata store (SpecMeta)                             *)

\* the rows of _experiment_metadata that hold the key
RowsOf(key) ==
    SelectValues(kvRows, key)

\* C21: after psql_set_metadata returned 0 for a key, psql_get_metadata
\* returns the last value so set, and the key has at most one row, which
\* holds that value.
C21_SetThenGet ==
    /\ \A key \in DOMAIN kvLast :
          /\ Len(RowsOf(key)) <= 1
          /\ \A i \in 1..Len(RowsOf(key)) : RowsOf(key)[i] = kvLast[key]
    /\ ( kv.called /\ kv.op = "get" /\ kv.q_ok /\ kv.key \in DOMAIN kvLast )
          => kv.got = Ptr(kvLast[kv.key])

\* C25: no two different sender names were given the same id by
\* psql_add_sender_id, whether or not its queries and its INSERT succeeded.
C25_SenderIdsDistinct ==
    /\ \A n1 \in DOMAIN firstId : \A n2 \in DOMAIN firstId :
          n1 # n2 => firstId[n1] # firstId[n2]
    /\ snd.called =>
          \A n \in DOMAIN firstId \ { snd.name } : firstId[n] # snd.ret

-----------------------------------------------------------------------------
(* Properties of the scratch buffers and of blob columns (SpecEnc)         *)

\* C22: no write of psql_insert into a scratch buffer goes past the size the
\* buffer has at the time: the size psql_table_create gave it, or that of its
\* last reallocation.
C22_WritesWithinScratch ==
    /\ ins.over = { }
    /\ psql_set_int32_value(Zeros(4), values[1]).wrote <= Len(values[1])
    /\ psql_set_int32_value(Zeros(4), values[2]).wrote <= Len(values[2])
    /\ psql_set_double_value(Zeros(8), values[3]).wrote <= Len(values[3])
    /\ psql_set_double_value(Zeros(8), values[4]).wrote <= Len(values[4])

\* C27: when PQescapeByteaConn returns NULL, psql_insert returns -1, does not
\* use the null result and does not execute the prepared statement.
C27_EscapeFailureReturns ==
    ( /\ ins.called
      /\ ins.escape # "ok"
      /\ \E k \in 1..Len(ins.ran) : ins.ran[k] = << "OML_BLOB_VALUE" >> ) =>
        /\ ~ins.crashed /\ ins.ret = -1
        /\ ~ins.null_used
        /\ ins.exec = "none"

-----------------------------------------------------------------------------
(* Properties of the failure paths of psql_table_create (SpecTables)       *)

\* C23: after psql_table_create returned -1, table->handle does not point to
\* a PsqlTable the function freed, and the failure path read no field of it
\* that was never initialised; a psql_table_free that follows such a call
\* frees no memory a second time.
C23_FailureLeavesNoDanglingHandle ==
    /\ ( tc.called /\ tc.missing = "none" /\ ~tc.crashed /\ tc.ret = -1 ) =>
          /\ tc.handle.state # "freed"
          /\ ~tc.uninit_read
    /\ ( tc.called /\ tc.missing = "none" /\ tc.crashed ) => ~tc.uninit_read
    /\ ( tf.called /\ tf.after_failed_create ) => ~tf.freed_again

\* C24: called with db, table or table->schema NULL, psql_table_create
\* returns -1 without reading through the missing pointer.
C24_NullArgumentsRejected ==
    ( tc.called /\ tc.missing # "none" ) =>
        ~tc.null_deref /\ ~tc.crashed /\ tc.ret = -1

-----------------------------------------------------------------------------
(* Repeated psql_get_table_list on one connection (SpecList)               *)

\* C26: a psql_get_table_list that is not the first of its connection, with
\* the transaction usable and every query and allocation succeeding, does
\* not fail: the statements OMLGetTableList and OMLGetTableSchema being
\* prepared already is no error.
C26_SecondCallSucceeds ==
    ( /\ gl.called /\ ~gl.first_call
      /\ gl.txn_before # "aborted"
      /\ gl.list_ok /\ gl.qfail_at = 0 /\ gl.afail_at = 0 ) =>
        ~gl.failed /\ gl.num_tables >= 0

-----------------------------------------------------------------------------
(* The accepted form of a collection URI (SpecUri)                         *)

\* C28: parse_uri returns 0 only when it has stored a non-empty string in
\* *path, whatever the input: a NULL uri, an empty host part, the empty
\* string.
C28_AcceptedHasPath ==
    ( parsed.called /\ parsed.ret = 0 ) =>
        /\ parsed.stored
        /\ ~parsed.path.null
        /\ Len(parsed.path.s) > 0

-----------------------------------------------------------------------------
(* Termination and cleanup of oml_zlib_inf (SpecInfLive, SpecInf)          *)

\* C29: oml_zlib_inf terminates on every input file: every run of the
\* function reaches one of its return statements, also when inflate keeps
\* reporting a data error or makes no progress while resynced is set.
C29_InfTerminates ==
    <>( zi.pc = "returned" )

\* C30: once deflateInit2 / inflateInit2 has succeeded, oml_zlib_def and
\* oml_zlib_inf return only after exactly one deflateEnd / inflateEnd, on
\* the Z_STREAM_ERROR paths as well.
C30_StreamEndedOnce ==
    /\ ( zi.pc = "returned" /\ zi.how # "init failed" ) => zi.ends = 1
    /\ ( zd.pc = "returned" /\ zd.how # "init failed" ) => zd.ends = 1

====
